---- MODULE Spec2Model ----
(***************************************************************************)
(* kia-server: the multi-provider LLM routing layer.                       *)
(*                                                                         *)
(*   LlmRouterService          src/src/justus/llmRouter.service.ts         *)
(*   TranslationRouterService  src/src/kiaspora/kiaspora.module.ts         *)
(*                                                                         *)
(* JavaScript values are tagged records; strings that the code trims,      *)
(* lower-cases or tests for blankness are sequences of one-character       *)
(* strings, error messages are sequences of words.                         *)
(***************************************************************************)
EXTENDS Integers, Sequences, FiniteSets, TLC

VARIABLES
    env,        \* process.env: the variables the routers read
    upstream,   \* how each upstream provider answers a POST
    pc,         \* LlmRouterService.route: position of the call
    rawBody,    \* route's rawBody argument
    traceId,    \* route's traceId argument
    request,    \* the NormalizedRequest, once validated
    attempt,    \* the adapter being called, or "none"
    invoked,    \* adapters entered by this call, in order
    fetched,    \* upstream POSTs issued by this call, in order
    inflight,   \* providers with a fetch in flight
    result,     \* what route returned
    tpc,        \* TranslationRouterService.handle: position of the call
    tbody,      \* handle's body argument
    trequest,   \* the validated translation request
    tattempt,   \* the provider being called, or "none"
    tinvoked,   \* translation adapters entered, in order
    tfetched,   \* translation POSTs issued, in order
    tresult,    \* what handle returned or threw
    calls,      \* two calls of route side by side: the state of each call
    received,   \* the POSTs the upstreams received from those calls, in order
    providerBody,   \* a provider body handed to extractTextFromProviderBody
    extractedText,  \* what extractTextFromProviderBody returned for it
    modelOutput,    \* the output text of the model handed to parseModelResult
    generatedReviews,   \* the records generateReview has persisted, in order
    reviewResult,   \* what generateReview returned for it
    storeFile,      \* the store file of GenerateReviewService
    reviews,        \* calls of generateReview side by side: the state of each call
    outbound,       \* the requests generateReview has sent, in order
    dto,            \* a request body handed to validateGenerateReviewDto
    validation      \* what validateGenerateReviewDto returned for it

routerVars == <<pc, rawBody, traceId, request, attempt, invoked, fetched, inflight, result>>
translationVars == <<tpc, tbody, trequest, tattempt, tinvoked, tfetched, tresult>>
twoCallVars == <<calls, received>>
normalizerVars == <<providerBody, extractedText>>
serviceVars == <<storeFile, reviews, outbound>>
dtoVars == <<dto, validation>>
reviewVars == <<modelOutput, generatedReviews, reviewResult, serviceVars, dtoVars>>
\* what a step of route leaves alone, and what a step of handle leaves alone
besidesRouter == <<translationVars, twoCallVars, normalizerVars, reviewVars>>
besidesTranslation == <<routerVars, twoCallVars, normalizerVars, reviewVars>>
vars == <<env, upstream, routerVars, translationVars, twoCallVars, normalizerVars, reviewVars>>

(***************************************************************************)
(* Bounds of the model                                                     *)
(***************************************************************************)
\* longest text an upstream body carries in one field
MaxTextLen == 2

(***************************************************************************)
(* JavaScript values                                                       *)
(***************************************************************************)
Undefined == [t |-> "undefined"]
Null == [t |-> "null"]
Bool(b) == [t |-> "boolean", b |-> b]
Num(n) == [t |-> "number", n |-> n]
Str(s) == [t |-> "string", s |-> s]
Arr(a) == [t |-> "array", a |-> a]
Obj(f) == [t |-> "object", f |-> f]
EmptyObj == [t |-> "object", f |-> <<>>]

\* typeof v
TypeOf(v) ==
    CASE v.t = "undefined" -> "undefined"
      [] v.t = "boolean" -> "boolean"
      [] v.t = "number" -> "number"
      [] v.t = "string" -> "string"
      [] OTHER -> "object"

\* v == null
Nullish(v) == v.t \in {"undefined", "null"}

\* !!v
Truthy(v) ==
    CASE v.t \in {"undefined", "null"} -> FALSE
      [] v.t = "boolean" -> v.b
      [] v.t = "number" -> v.n # 0
      [] v.t = "string" -> v.s # <<>>
      [] OTHER -> TRUE

\* v?.k : property k of v, undefined when v is nullish or has no such property
Get(v, k) ==
    IF v.t = "object" /\ k \in DOMAIN v.f THEN v.f[k] ELSE Undefined

\* v?.[0]
First(v) ==
    IF v.t = "array" /\ Len(v.a) > 0 THEN v.a[1] ELSE Undefined

\* a ?? b
Coalesce(a, b) == IF Nullish(a) THEN b ELSE a

(***************************************************************************)
(* Strings: sequences of characters                                        *)
(***************************************************************************)
Whitespace == {" "}

RECURSIVE TrimStart(_)
TrimStart(s) ==
    IF s # <<>> /\ Head(s) \in Whitespace THEN TrimStart(Tail(s)) ELSE s

RECURSIVE TrimEnd(_)
TrimEnd(s) ==
    IF s # <<>> /\ s[Len(s)] \in Whitespace
    THEN TrimEnd(SubSeq(s, 1, Len(s) - 1))
    ELSE s

\* String.prototype.trim
Trim(s) == TrimEnd(TrimStart(s))

LowerChar(c) ==
    CASE c = "A" -> "a" [] c = "D" -> "d" [] c = "E" -> "e" [] c = "G" -> "g"
      [] c = "I" -> "i" [] c = "K" -> "k" [] c = "L" -> "l" [] c = "N" -> "n"
      [] c = "O" -> "o"
      [] c = "P" -> "p" [] c = "Q" -> "q" [] c = "R" -> "r" [] c = "S" -> "s"
      [] OTHER -> c

\* String.prototype.toLowerCase
ToLowerCase(s) == [i \in 1..Len(s) |-> LowerChar(s[i])]

\* Array.prototype.join('') of an array of strings
RECURSIVE Join(_)
Join(parts) ==
    IF parts = <<>> THEN <<>> ELSE Head(parts) \o Join(Tail(parts))

\* all strings over the alphabet of length at most n
Texts(alphabet, n) == UNION {[1..k -> alphabet] : k \in 0..n}

deepseek == <<"d", "e", "e", "p", "s", "e", "e", "k">>
openai == <<"o", "p", "e", "n", "a", "i">>
groq == <<"g", "r", "o", "q">>

(***************************************************************************)
(* Exceptions and outcomes of a call                                       *)
(***************************************************************************)
Return(v) == [ok |-> TRUE, value |-> v]
Throw(e) == [ok |-> FALSE, error |-> e]

\* class HttpError of llmRouter.service.ts; details defaults to null
HttpError(statusCode, message, details) ==
    [class |-> "HttpError", statusCode |-> statusCode, message |-> message,
     details |-> details]

\* an Error that is no HttpError; the runtime gives it a name and a stack
NativeError(name, message) ==
    [class |-> "Error", name |-> Str(<<name>>), message |-> message,
     stack |-> Str(<<name, "at", "node:internal">>)]

(***************************************************************************)
(* Texts on the wire.  A text is described by what JSON.parse makes of it: *)
(* the empty text, a text that is no JSON, or the text of a JSON value.    *)
(***************************************************************************)
EmptyText == [raw |-> "empty"]
InvalidText == [raw |-> "invalid"]
ProseText(s) == [raw |-> "invalid", s |-> s]
JsonText(v) == [raw |-> "json", v |-> v]

\* JSON.parse(text)
JsonParse(text) ==
    IF text.raw = "json"
    THEN Return(text.v)
    ELSE Throw(NativeError("SyntaxError", <<"Unexpected", "token">>))

(***************************************************************************)
(* LlmRouterService                                                        *)
(***************************************************************************)
DeepseekTimeoutMs == 10000
OpenAiTimeoutMs == 25000

\* parseJsonBody(rawBody); rawBody is undefined or a text
parseJsonBody(raw) ==
    IF raw = Undefined \/ raw = EmptyText
    THEN Return(EmptyObj)
    ELSE IF JsonParse(raw).ok
         THEN Return(JsonParse(raw).value)
         ELSE Throw(HttpError(400, <<"Invalid", "JSON", "body">>, Null))

\* validateRequestPayload(payload)
validateRequestPayload(payload) ==
    LET provider == Get(payload, "provider")
        input == Get(payload, "input")
        system == Get(payload, "system")
        metadata == Get(payload, "metadata")
        lower == ToLowerCase(provider.s)
    IN  IF Nullish(payload)
        THEN \* destructuring null
             Throw(NativeError("TypeError", <<"Cannot", "destructure", "property">>))
        ELSE IF ~Truthy(input) \/ TypeOf(input) # "string"
        THEN Throw(HttpError(400, <<"input", "is", "required", "and", "must", "be", "a", "string">>, Null))
        ELSE IF ~Nullish(system) /\ TypeOf(system) # "string"
        THEN Throw(HttpError(400, <<"system", "must", "be", "a", "string", "when", "provided">>, Null))
        ELSE IF ~Nullish(metadata) /\ TypeOf(metadata) # "object"
        THEN Throw(HttpError(400, <<"metadata", "must", "be", "an", "object", "when", "provided">>, Null))
        ELSE IF ~Nullish(provider) /\ TypeOf(provider) # "string"
        THEN Throw(HttpError(400, <<"provider", "must", "be", "a", "string", "when", "provided">>, Null))
        ELSE IF ~Nullish(provider) /\ lower # deepseek /\ lower # openai
        THEN Throw(HttpError(400, <<"provider", "must", "be", "deepseek", "or", "openai">>, Null))
        ELSE Return([provider |-> IF Nullish(provider) THEN Null ELSE Str(lower),
                     input |-> input,
                     system |-> Coalesce(system, Null),
                     metadata |-> Coalesce(metadata, Null)])

\* a configuration lookup that forgets to require DEEPSEEK_URL
getDeepseekConfig_NoUrlCheck(e) ==
    IF ~Truthy(e.DEEPSEEK_API_KEY)
    THEN Throw(HttpError(500, <<"DEEPSEEK_API_KEY", "missing">>, Null))
    ELSE Return([key |-> e.DEEPSEEK_API_KEY,
                 baseUrl |-> e.DEEPSEEK_URL,
                 model |-> Coalesce(e.DEEPSEEK_PROMPT_MODEL, Str(<<"deepseek-chat">>))])

\* getDeepseekConfig()
getDeepseekConfig(e) ==
    IF ~Truthy(e.DEEPSEEK_API_KEY)
    THEN Throw(HttpError(500, <<"DEEPSEEK_API_KEY", "missing">>, Null))
    ELSE IF ~Truthy(e.DEEPSEEK_URL)
    THEN Throw(HttpError(500, <<"DEEPSEEK_URL", "missing">>, Null))
    ELSE Return([key |-> e.DEEPSEEK_API_KEY,
                 baseUrl |-> e.DEEPSEEK_URL,
                 model |-> Coalesce(e.DEEPSEEK_PROMPT_MODEL, Str(<<"deepseek-chat">>))])

\* getOpenAiConfig()
getOpenAiConfig(e) ==
    IF ~Truthy(e.OPENAI_KIA_API_KEY)
    THEN Throw(HttpError(500, <<"OPENAI_KIA_API_KEY", "missing">>, Null))
    ELSE Return([key |-> e.OPENAI_KIA_API_KEY,
                 baseUrl |-> Str(<<"https://api.openai.com/v1/responses">>),
                 model |-> Coalesce(e.OPENAI_PROMPT_MODEL, Str(<<"gpt-4.1-mini">>))])

\* the request fetchWithTimeout hands to fetch
FetchRequest(provider, config, tid, timeoutMs) ==
    [provider |-> provider, url |-> config.baseUrl,
     authorization |-> <<"Bearer", config.key>>,
     traceId |-> tid, model |-> config.model, timeoutMs |-> timeoutMs]

\* fetchWithTimeout: what the await yields for an upstream behaviour
fetchWithTimeout(behaviour, timeoutMs) ==
    CASE behaviour.kind = "response" -> Return(behaviour)
      [] behaviour.kind = "hang" ->
            \* the timer fires, controller.abort() rejects fetch with AbortError
            Throw(HttpError(504, <<"Provider", "request", "timed", "out", "after",
                                   ToString(timeoutMs), "ms">>, Null))
      [] OTHER -> Throw(NativeError("TypeError", <<"fetch", "failed">>))

\* response.ok
ResponseOk(response) == response.status >= 200 /\ response.status <= 299

\* readJsonSafe(response)
readJsonSafe(response) ==
    IF response.text = EmptyText
    THEN [json |-> Null, text |-> Str(<<>>)]
    ELSE IF JsonParse(response.text).ok
         THEN [json |-> JsonParse(response.text).value, text |-> Str(<<response.text>>)]
         ELSE [json |-> Null, text |-> Str(<<response.text>>)]

\* the strings one content block contributes, in the order they are pushed
BlockParts(block) ==
    IF ~Truthy(block)
    THEN <<>>
    ELSE (IF TypeOf(Get(block, "text")) = "string"
          THEN <<Get(block, "text").s>> ELSE <<>>)
      \o (IF Truthy(Get(block, "text")) /\ TypeOf(Get(Get(block, "text"), "value")) = "string"
          THEN <<Get(Get(block, "text"), "value").s>> ELSE <<>>)
      \o (IF TypeOf(Get(block, "content")) = "string"
          THEN <<Get(block, "content").s>> ELSE <<>>)
      \o (IF Truthy(Get(block, "content")) /\ TypeOf(Get(Get(block, "content"), "value")) = "string"
          THEN <<Get(Get(block, "content"), "value").s>> ELSE <<>>)

RECURSIVE ContentParts(_)
ContentParts(blocks) ==
    IF blocks = <<>> THEN <<>>
    ELSE BlockParts(Head(blocks)) \o ContentParts(Tail(blocks))

\* the structured "output" rule: the joined, trimmed text, <<>> when it yields none
OutputArrayText(output) ==
    IF output.t = "array" /\ Len(output.a) > 0
    THEN LET content == Get(output.a[1], "content")
         IN  IF content.t = "array" THEN Trim(Join(ContentParts(content.a))) ELSE <<>>
    ELSE <<>>

\* a normalizer that looks at choices[0].message.content before anything else
extractTextFromProviderBody_ChatFirst(body) ==
    LET outputText == Get(body, "output_text")
        joined == OutputArrayText(Get(body, "output"))
        chatCompletion == Get(Get(First(Get(body, "choices")), "message"), "content")
    IN  IF ~Truthy(body) THEN Null
        ELSE IF TypeOf(chatCompletion) = "string" /\ Trim(chatCompletion.s) # <<>>
        THEN Str(Trim(chatCompletion.s))
        ELSE IF TypeOf(outputText) = "string" /\ Trim(outputText.s) # <<>>
        THEN Str(Trim(outputText.s))
        ELSE IF joined # <<>>
        THEN Str(joined)
        ELSE Null

\* extractTextFromProviderBody(body): a string value, or Null
extractTextFromProviderBody(body) ==
    LET outputText == Get(body, "output_text")
        joined == OutputArrayText(Get(body, "output"))
        chatCompletion == Get(Get(First(Get(body, "choices")), "message"), "content")
        fallback == Coalesce(Get(body, "text"),
                    Coalesce(Get(body, "output"),
                    Coalesce(Get(body, "result"),
                    Coalesce(Get(body, "response"), Null))))
    IN  IF ~Truthy(body) THEN Null
        ELSE IF TypeOf(outputText) = "string" /\ Trim(outputText.s) # <<>>
        THEN Str(Trim(outputText.s))
        ELSE IF joined # <<>>
        THEN Str(joined)
        ELSE IF TypeOf(chatCompletion) = "string" /\ Trim(chatCompletion.s) # <<>>
        THEN Str(Trim(chatCompletion.s))
        ELSE IF TypeOf(fallback) = "string" /\ Trim(fallback.s) # <<>>
        THEN Str(Trim(fallback.s))
        ELSE Null

\* a normalizer that returns whatever was extracted, without the emptiness check
normalizeProviderResponse_NoCheck(provider, response, body) ==
    Return([output_text |-> Coalesce(extractTextFromProviderBody(body), Str(<<>>)),
            raw_provider_meta |->
               [status |-> response.status,
                headers |-> [x_request_id |-> response.requestId],
                body |-> body]])

\* normalizeProviderResponse(provider, response, body)
normalizeProviderResponse(provider, response, body) ==
    LET outputText == extractTextFromProviderBody(body)
    IN  IF ~Truthy(outputText)
        THEN Throw(HttpError(502, <<"Provider", provider, "returned", "no",
                                    "recognizable", "text", "field">>, Null))
        ELSE Return([output_text |-> outputText,
                     raw_provider_meta |->
                        [status |-> response.status,
                         headers |-> [x_request_id |-> response.requestId],
                         body |-> body]])

\* callDeepseek, from the response of fetchWithTimeout on
callDeepseekResume(config, response, tid) ==
    LET parsed == readJsonSafe(response)
        normalized == normalizeProviderResponse("deepseek", response,
                                                Coalesce(parsed.json, EmptyObj))
    IN  IF ~ResponseOk(response)
        THEN Throw(HttpError(502, <<"DeepSeek", "HTTP", ToString(response.status)>>,
                             Obj([body |-> Coalesce(parsed.json, parsed.text)])))
        ELSE IF ~normalized.ok THEN normalized
        ELSE Return([provider |-> "deepseek", model |-> config.model, trace_id |-> tid,
                     output_text |-> normalized.value.output_text,
                     raw_provider_meta |-> normalized.value.raw_provider_meta])

\* callOpenAi, from the response of fetchWithTimeout on
callOpenAiResume(config, response, tid) ==
    LET parsed == readJsonSafe(response)
        normalized == normalizeProviderResponse("openai", response,
                                                Coalesce(parsed.json, EmptyObj))
    IN  IF ~ResponseOk(response)
        THEN Throw(HttpError(502, <<"OpenAI", "HTTP", ToString(response.status)>>,
                             Obj([body |-> Coalesce(parsed.json, parsed.text)])))
        ELSE IF ~normalized.ok THEN normalized
        ELSE Return([provider |-> "openai", model |-> config.model, trace_id |-> tid,
                     output_text |-> normalized.value.output_text,
                     raw_provider_meta |-> normalized.value.raw_provider_meta])

\* route: return { statusCode: 200, body: response }
RouteSuccess(response) == [statusCode |-> 200, body |-> response]

\* a catch block that handles HttpError and rethrows everything else
RouteFailure_Rethrow(error, tid) ==
    IF error.class = "HttpError"
    THEN [statusCode |-> error.statusCode,
          body |-> [errors |-> <<error.message>>, trace_id |-> tid]]
    ELSE [thrown |-> error]

\* route: the catch block that turns an exception into a RouteFailure
RouteFailure(error, tid) ==
    IF error.class = "HttpError"
    THEN IF Nullish(error.details)
         THEN [statusCode |-> error.statusCode,
               body |-> [errors |-> <<error.message>>, trace_id |-> tid]]
         ELSE [statusCode |-> error.statusCode,
               body |-> [errors |-> <<error.message>>, trace_id |-> tid,
                         details |-> error.details]]
    ELSE [statusCode |-> 500,
          body |-> [errors |-> <<<<"Internal", "server", "error">>>>
                               \o (IF error.message # <<>> THEN <<error.message>> ELSE <<>>),
                    trace_id |-> tid,
                    details |-> Obj([name |-> Coalesce(error.name, Null),
                                     stack |-> Coalesce(error.stack, Null)])]]

\* a route that calls OpenAI first unless DeepSeek is forced
FirstAdapter_OpenAiFirst(req) ==
    IF req.provider = Str(deepseek) THEN "deepseek" ELSE "openai"

\* route: the adapter called first for a validated request
FirstAdapter(req) ==
    IF req.provider = Str(openai) THEN "openai" ELSE "deepseek"

\* a catch that swallows upstream failures only, and lets a missing configuration through
FallsBack_UpstreamOnly(req, adapter, error) ==
    /\ req.provider = Null
    /\ adapter = "deepseek"
    /\ error.class = "HttpError"
    /\ error.statusCode # 500

\* route: whether an exception of this adapter is swallowed and OpenAI tried next
\* (the bare catch around the automatic callDeepseek swallows every exception)
FallsBack(req, adapter, error) == req.provider = Null /\ adapter = "deepseek"

(***************************************************************************)
(* Inputs of LlmRouterService.route                                        *)
(***************************************************************************)
hi == <<"h", "i">>
OpenAIMixedCase == <<"O", "p", "e", "n", "A", "I">>

\* payloads validateRequestPayload accepts
ValidPayloads ==
    { Obj([input |-> Str(hi)]),
      Obj([input |-> Str(hi), provider |-> Null]),
      Obj([input |-> Str(hi), provider |-> Str(deepseek)]),
      Obj([input |-> Str(hi), provider |-> Str(OpenAIMixedCase)]),
      Obj([input |-> Str(hi), system |-> Str(<<"s">>), metadata |-> Obj([k |-> Num(1)])]),
      Obj([input |-> Str(hi), provider |-> Str(openai), metadata |-> Arr(<<>>)]) }

\* payloads with one field wrong
InvalidPayloads ==
    { EmptyObj,
      Obj([input |-> Str(<<>>)]),
      Obj([input |-> Num(7)]),
      Obj([input |-> Null, provider |-> Str(deepseek)]),
      Obj([input |-> Str(hi), provider |-> Num(1)]),
      Obj([input |-> Str(hi), provider |-> Str(groq)]),
      Obj([input |-> Str(hi), provider |-> Str(<<>>)]),
      Obj([input |-> Str(hi), system |-> Num(0)]),
      Obj([input |-> Str(hi), provider |-> Str(openai), system |-> Bool(TRUE)]),
      Obj([input |-> Str(hi), metadata |-> Str(<<"m">>)]),
      Obj([input |-> Str(hi), metadata |-> Num(1)]) }

\* JSON texts that denote no object
NonObjectJson == { Null, Num(5), Str(hi), Arr(<<>>) }

RawBodies ==
    { Undefined, EmptyText, InvalidText }
    \cup { JsonText(v) : v \in ValidPayloads \cup InvalidPayloads \cup NonObjectJson }

TraceIds == { "trace-1" }

(***************************************************************************)
(* The environment: process.env and the upstream providers                 *)
(***************************************************************************)
ChatBody(s) == Obj([choices |-> Arr(<<Obj([message |-> Obj([content |-> Str(s)])])>>)])
OutputBody(blocks) == Obj([output |-> Arr(<<Obj([content |-> Arr(blocks)])>>)])

\* JSON bodies an upstream may answer with
ResponseBodies ==
    { EmptyObj, ChatBody(<<"c">>), ChatBody(<<" ">>),
      OutputBody(<<Obj([text |-> Str(<<"a">>)]), Obj([text |-> Obj([value |-> Str(<<"b">>)])])>>),
      OutputBody(<<Obj([text |-> Str(<<" ">>)])>>),
      Obj([text |-> Str(<<"t">>)]) }
    \cup { Obj([output_text |-> Str(s)]) : s \in Texts({" ", "a"}, MaxTextLen) }

Response(status, text, requestId) ==
    [kind |-> "response", status |-> status, text |-> text, requestId |-> requestId]

\* what an upstream does with a POST: answer, never answer, or fail the connection
Behaviours ==
    { [kind |-> "hang"], [kind |-> "neterr"],
      Response(503, InvalidText, Null),
      Response(500, JsonText(Obj([error |-> Str(<<"e">>)])), Str(<<"req-1">>)),
      Response(200, EmptyText, Null),
      Response(200, InvalidText, Null) }
    \cup { Response(200, JsonText(b), Null) : b \in ResponseBodies }

Adapters == { "deepseek", "openai" }

RouterEnvs ==
    [ DEEPSEEK_API_KEY : { Undefined, Str(<<>>), Str(<<"sk-deepseek">>) },
      DEEPSEEK_URL : { Undefined, Str(<<"https://deepseek.example/chat">>) },
      DEEPSEEK_PROMPT_MODEL : { Undefined, Str(<<"deepseek-reasoner">>) },
      OPENAI_KIA_API_KEY : { Undefined, Str(<<"sk-openai">>) },
      OPENAI_PROMPT_MODEL : { Undefined },
      DEEPSEEK_TRANSLATION_MODEL : { Undefined },
      GROQ_TRANSLATION_MODEL : { Undefined },
      OPENAI_TRANSLATION_MODEL : { Undefined },
      OPENAI_API_KEY : { Undefined },
      OPENAI_KIASPORA_API_KEY : { Undefined },
      GROQ_KIA_API_KEY : { Undefined },
      GROQ_API_KEY : { Undefined } ]

NoResult == [statusCode |-> 0]

RouterIdle ==
    /\ pc = "idle"
    /\ rawBody = Undefined
    /\ traceId = ""
    /\ request = Null
    /\ attempt = "none"
    /\ invoked = <<>>
    /\ fetched = <<>>
    /\ inflight = {}
    /\ result = NoResult

TranslationIdle ==
    /\ tpc = "idle"
    /\ tbody = Undefined
    /\ trequest = Null
    /\ tattempt = "none"
    /\ tinvoked = <<>>
    /\ tfetched = <<>>
    /\ tresult = NoResult

\* the two calls of route that run side by side
CallIds == { "first", "second" }

\* a call of route that has not been entered
CallIdle ==
    [pc |-> "idle", rawBody |-> Undefined, traceId |-> "", request |-> Null,
     attempt |-> "none", invoked |-> <<>>, fetched |-> <<>>, result |-> NoResult]

TwoCallsIdle ==
    /\ calls = [c \in CallIds |-> CallIdle]
    /\ received = <<>>

NormalizerIdle ==
    /\ providerBody = Undefined
    /\ extractedText = Undefined

\* a store file without gate and without row
EmptyStore == [reviewGates |-> <<>>, generatedReviews |-> <<>>]

\* a call of generateReview that has not begun
IdleReview == [pc |-> "idle", result |-> NoResult]

NoValidation == [value |-> Null, errors |-> <<>>, pending |-> TRUE]

DtoIdle ==
    /\ dto = Undefined
    /\ validation = NoValidation

ServiceIdle ==
    /\ DtoIdle
    /\ storeFile = EmptyStore
    /\ reviews = [c \in CallIds |-> IdleReview]
    /\ outbound = <<>>

ReviewIdle ==
    /\ modelOutput = Undefined
    /\ generatedReviews = <<>>
    /\ reviewResult = NoResult
    /\ ServiceIdle

Init ==
    /\ env \in RouterEnvs
    /\ upstream \in [Adapters -> Behaviours]
    /\ RouterIdle
    /\ TranslationIdle
    /\ TwoCallsIdle
    /\ NormalizerIdle
    /\ ReviewIdle

(***************************************************************************)
(* LlmRouterService.route, step by step                                    *)
(***************************************************************************)
\* a route that calls a failed adapter a second time before it goes on
AdapterThrew_RetriesOnce(adapter, error) ==
    IF Cardinality({ i \in DOMAIN invoked : invoked[i] = adapter }) <= 1
    THEN /\ pc' = "call"
         /\ attempt' = adapter
         /\ UNCHANGED result
    ELSE IF FallsBack(request, adapter, error)
    THEN /\ pc' = "call"
         /\ attempt' = "openai"
         /\ UNCHANGED result
    ELSE /\ pc' = "done"
         /\ attempt' = "none"
         /\ result' = RouteFailure(error, traceId)

\* a route in which a timeout of one adapter ends the whole chain
AdapterThrew_TimeoutEndsRoute(adapter, error) ==
    IF FallsBack(request, adapter, error)
       /\ ~(error.class = "HttpError" /\ error.statusCode = 504)
    THEN /\ pc' = "call"
         /\ attempt' = "openai"
         /\ UNCHANGED result
    ELSE /\ pc' = "done"
         /\ attempt' = "none"
         /\ result' = RouteFailure(error, traceId)

\* an adapter call threw: fall back to OpenAI, or leave through route's catch
AdapterThrew(adapter, error) ==
    IF FallsBack(request, adapter, error)
    THEN /\ pc' = "call"
         /\ attempt' = "openai"
         /\ UNCHANGED result
    ELSE /\ pc' = "done"
         /\ attempt' = "none"
         /\ result' = RouteFailure(error, traceId)

\* an adapter call returned a ProviderResult
AdapterReturned(response) ==
    /\ pc' = "done"
    /\ attempt' = "none"
    /\ result' = RouteSuccess(response)

\* route is entered: parseJsonBody, validateRequestPayload, choice of the adapter
Route(raw, tid) ==
    /\ pc = "idle"
    /\ rawBody' = raw
    /\ traceId' = tid
    /\ LET payload == parseJsonBody(raw)
           validated == IF payload.ok THEN validateRequestPayload(payload.value) ELSE payload
       IN  IF validated.ok
           THEN /\ request' = validated.value
                /\ attempt' = FirstAdapter(validated.value)
                /\ pc' = "call"
                /\ UNCHANGED result
           ELSE /\ request' = Null
                /\ attempt' = "none"
                /\ pc' = "done"
                /\ result' = RouteFailure(validated.error, tid)
    /\ UNCHANGED <<env, upstream, invoked, fetched, inflight, besidesRouter>>

\* callDeepseek up to its await of fetchWithTimeout
CallDeepseek ==
    /\ pc = "call"
    /\ attempt = "deepseek"
    /\ invoked' = Append(invoked, "deepseek")
    /\ LET config == getDeepseekConfig(env)
       IN  IF config.ok
           THEN /\ fetched' = Append(fetched,
                        FetchRequest("deepseek", config.value, traceId, DeepseekTimeoutMs))
                /\ inflight' = inflight \cup {"deepseek"}
                /\ pc' = "await"
                /\ UNCHANGED <<attempt, result>>
           ELSE /\ AdapterThrew("deepseek", config.error)
                /\ UNCHANGED <<fetched, inflight>>
    /\ UNCHANGED <<env, upstream, rawBody, traceId, request, besidesRouter>>

\* callOpenAi up to its await of fetchWithTimeout
CallOpenAi ==
    /\ pc = "call"
    /\ attempt = "openai"
    /\ invoked' = Append(invoked, "openai")
    /\ LET config == getOpenAiConfig(env)
       IN  IF config.ok
           THEN /\ fetched' = Append(fetched,
                        FetchRequest("openai", config.value, traceId, OpenAiTimeoutMs))
                /\ inflight' = inflight \cup {"openai"}
                /\ pc' = "await"
                /\ UNCHANGED <<attempt, result>>
           ELSE /\ AdapterThrew("openai", config.error)
                /\ UNCHANGED <<fetched, inflight>>
    /\ UNCHANGED <<env, upstream, rawBody, traceId, request, besidesRouter>>

TimeoutOf(adapter) == IF adapter = "deepseek" THEN DeepseekTimeoutMs ELSE OpenAiTimeoutMs

\* the rest of the adapter once fetchWithTimeout has yielded a response
Resume(adapter, response) ==
    IF adapter = "deepseek"
    THEN callDeepseekResume(getDeepseekConfig(env).value, response, traceId)
    ELSE callOpenAiResume(getOpenAiConfig(env).value, response, traceId)

\* the await of fetchWithTimeout ends, the adapter and route run on
Settle(outcome) ==
    /\ inflight' = inflight \ {attempt}
    /\ IF outcome.ok
       THEN LET returned == Resume(attempt, outcome.value)
            IN  IF returned.ok
                THEN AdapterReturned(returned.value)
                ELSE AdapterThrew(attempt, returned.error)
       ELSE AdapterThrew(attempt, outcome.error)
    /\ UNCHANGED <<env, upstream, rawBody, traceId, request, invoked, fetched, besidesRouter>>

\* the upstream answers with a status line and a body
FetchResolves ==
    /\ pc = "await"
    /\ upstream[attempt].kind = "response"
    /\ Settle(fetchWithTimeout(upstream[attempt], TimeoutOf(attempt)))

\* the upstream never answers: the timer fires and aborts the fetch
FetchAborts ==
    /\ pc = "await"
    /\ upstream[attempt].kind = "hang"
    /\ Settle(fetchWithTimeout(upstream[attempt], TimeoutOf(attempt)))

\* the connection fails: fetch rejects with a TypeError
FetchRejects ==
    /\ pc = "await"
    /\ upstream[attempt].kind = "neterr"
    /\ Settle(fetchWithTimeout(upstream[attempt], TimeoutOf(attempt)))

Next ==
    \/ \E raw \in RawBodies, tid \in TraceIds : Route(raw, tid)
    \/ CallDeepseek
    \/ CallOpenAi
    \/ FetchResolves
    \/ FetchAborts
    \/ FetchRejects

Spec == Init /\ [][Next]_vars

(***************************************************************************)
(* Vocabulary of the properties of LlmRouterService.route                  *)
(***************************************************************************)
Done == pc = "done"

\* r is a RouteSuccess: status 200 and a ProviderResult body
IsSuccess(r) ==
    /\ DOMAIN r = {"statusCode", "body"}
    /\ r.statusCode = 200
    /\ DOMAIN r.body = {"provider", "model", "trace_id", "output_text", "raw_provider_meta"}

\* r is a RouteFailure: another status and a list of errors
IsError(r) ==
    /\ DOMAIN r = {"statusCode", "body"}
    /\ r.statusCode # 200
    /\ "errors" \in DOMAIN r.body
    /\ Len(r.body.errors) >= 1

Validated == request # Null
Forced == Validated /\ request.provider # Null
Automatic == Validated /\ request.provider = Null
ForcedAdapter == IF request.provider = Str(deepseek) THEN "deepseek" ELSE "openai"

\* the words of an error message that name a provider
ProviderWords(adapter) ==
    IF adapter = "deepseek"
    THEN {"DeepSeek", "deepseek", "DEEPSEEK_API_KEY", "DEEPSEEK_URL"}
    ELSE {"OpenAI", "openai", "OPENAI_KIA_API_KEY"}

Mentions(message, adapter) ==
    \E i \in DOMAIN message : message[i] \in ProviderWords(adapter)

\* the environment holds what the adapter requires
Configured(adapter) ==
    IF adapter = "deepseek"
    THEN Truthy(env.DEEPSEEK_API_KEY) /\ Truthy(env.DEEPSEEK_URL)
    ELSE Truthy(env.OPENAI_KIA_API_KEY)

\* the upstream answers 2xx
Answers2xx(adapter) ==
    /\ upstream[adapter].kind = "response"
    /\ upstream[adapter].status \in 200..299

\* the body of the upstream's answer, as the adapter hands it to the normalizer
AnsweredBody(adapter) ==
    IF upstream[adapter].text.raw = "json" /\ ~Nullish(upstream[adapter].text.v)
    THEN upstream[adapter].text.v
    ELSE EmptyObj

\* the upstream answers 2xx with a body that yields no non-blank text
AnswersBlank(adapter) ==
    Answers2xx(adapter) /\ extractTextFromProviderBody(AnsweredBody(adapter)) = Null

\* a call of the adapter would succeed in this environment
Succeeds(adapter) ==
    Configured(adapter) /\ Answers2xx(adapter) /\ ~AnswersBlank(adapter)

WasFetched(adapter) == \E i \in DOMAIN fetched : fetched[i].provider = adapter

\* a request that fails validation, as the specification of the router lists them
FailsValidation(raw) ==
    \/ raw = InvalidText
    \/ LET payload == IF raw \in {Undefined, EmptyText} THEN EmptyObj ELSE raw.v
           input == Get(payload, "input")
           provider == Get(payload, "provider")
           system == Get(payload, "system")
           metadata == Get(payload, "metadata")
       IN  \/ input.t # "string"
           \/ input.s = <<>>
           \/ ~Nullish(provider) /\ provider.t # "string"
           \/ provider.t = "string" /\ ToLowerCase(provider.s) \notin {deepseek, openai}
           \/ ~Nullish(system) /\ system.t # "string"
           \/ ~Nullish(metadata) /\ metadata.t \notin {"object", "array"}

(***************************************************************************)
(* Properties of LlmRouterService.route                                    *)
(***************************************************************************)

\* C1: a forced route whose adapter fails, for whatever reason, returns one
\* error that names the forced provider, and the forced adapter is the only
\* adapter invoked, exactly once.
C1_ForcedFailureNamesProvider ==
    (Done /\ Forced /\ ~IsSuccess(result)) =>
        /\ IsError(result)
        /\ Len(result.body.errors) = 1
        /\ Mentions(result.body.errors[1], ForcedAdapter)
        /\ invoked = <<ForcedAdapter>>

\* C2: an automatic route tries DeepSeek, then OpenAI; it returns with status
\* 200 the success of the first adapter that succeeds, having invoked exactly
\* the adapters up to that one, in that order, and none after it.
C2_AutomaticOrder ==
    (Done /\ Automatic) =>
        /\ Succeeds("deepseek") =>
              /\ IsSuccess(result)
              /\ result.body.provider = "deepseek"
              /\ invoked = <<"deepseek">>
        /\ (~Succeeds("deepseek") /\ Succeeds("openai")) =>
              /\ IsSuccess(result)
              /\ result.body.provider = "openai"
              /\ invoked = <<"deepseek", "openai">>
        /\ IsSuccess(result) => result.body.provider = invoked[Len(invoked)]

C2_Witness ==
    /\ Done /\ Automatic
    /\ ~Succeeds("deepseek") /\ Succeeds("openai")
    /\ invoked = <<"deepseek", "openai">>
    /\ IsSuccess(result)

\* C3: a request that fails validation returns status 400 and no adapter is
\* invoked for it.
C3_InvalidRequestIs400 ==
    (Done /\ FailsValidation(rawBody)) =>
        /\ result.statusCode = 400
        /\ invoked = <<>>
        /\ fetched = <<>>

\* C4: an automatic route in which every adapter fails returns a 502 error,
\* never an error of another status.
C4_AllFailedIs502 ==
    (Done /\ Automatic /\ ~IsSuccess(result)) => result.statusCode = 502

\* C5: every call of route produces exactly one outcome, a success (status 200
\* with a ProviderResult) or an error (another status with a list of errors),
\* and nothing is produced before the call is done.
C5_ExactlyOneOutcome ==
    /\ Done => (IsSuccess(result) /\ ~IsError(result)) \/ (IsError(result) /\ ~IsSuccess(result))
    /\ ~Done => result = NoResult

C5_Witness ==
    /\ Done
    /\ IsError(result)
    /\ result.statusCode = 500
    /\ WasFetched("openai")
    /\ upstream["openai"].kind = "neterr"

\* C6: a success carries a non-blank output_text; an adapter whose upstream
\* answers 2xx with no non-blank text never is the success, its failure is a
\* 502 when it ends the route, and in automatic mode the next adapter is tried.
C6_SuccessHasText ==
    Done =>
        /\ IsSuccess(result) =>
              /\ result.body.output_text.t = "string"
              /\ result.body.output_text.s # <<>>
              /\ Trim(result.body.output_text.s) # <<>>
        /\ \A a \in Adapters :
              (WasFetched(a) /\ AnswersBlank(a)) =>
                 /\ ~(IsSuccess(result) /\ result.body.provider = a)
                 /\ invoked[Len(invoked)] = a => (IsError(result) /\ result.statusCode = 502)
                 /\ (Automatic /\ a = "deepseek") => invoked = <<"deepseek", "openai">>

C6_Witness ==
    /\ Done /\ Automatic
    /\ WasFetched("deepseek") /\ AnswersBlank("deepseek")
    /\ upstream["deepseek"].text.raw = "json"
    /\ invoked = <<"deepseek", "openai">>
    /\ IsSuccess(result)

\* C8: a forced route whose provider lacks its credential or endpoint returns
\* status 500 and issues no upstream call; no upstream call is ever issued
\* without a credential.
C8_ForcedMissingConfigIs500 ==
    /\ (Done /\ Forced /\ ~Configured(ForcedAdapter)) =>
          /\ IsError(result)
          /\ result.statusCode = 500
          /\ fetched = <<>>
    /\ \A i \in DOMAIN fetched :
          /\ Truthy(fetched[i].authorization[2])
          /\ Truthy(fetched[i].url)

C8_Witness ==
    /\ Done /\ Forced
    /\ ForcedAdapter = "deepseek"
    /\ Truthy(env.DEEPSEEK_API_KEY) /\ ~Truthy(env.DEEPSEEK_URL)
    /\ result.statusCode = 500
    /\ invoked = <<"deepseek">>

\* C9: in an automatic route, when one provider lacks its configuration and
\* the other one is configured and would succeed, the route returns the
\* success of that other provider, whichever of the two is misconfigured.
C9_MisconfiguredProviderIsSkipped ==
    (Done /\ Automatic) =>
        \A a \in Adapters : \A b \in Adapters \ {a} :
            (~Configured(a) /\ Succeeds(b)) =>
                /\ IsSuccess(result)
                /\ result.statusCode = 200
                /\ result.body.provider = b

C9_Witness ==
    /\ Done /\ Automatic
    /\ ~Configured("deepseek") /\ Succeeds("openai")
    /\ invoked = <<"deepseek", "openai">>
    /\ IsSuccess(result)

\* the credentials of the environment
Credentials == { env.DEEPSEEK_API_KEY, env.OPENAI_KIA_API_KEY } \ { Undefined }

\* C10: no error carries a stack trace or a credential in its details.
C10_NoStackInDetails ==
    (Done /\ IsError(result) /\ "details" \in DOMAIN result.body) =>
        /\ Nullish(Get(result.body.details, "stack"))
        /\ Get(result.body.details, "body") \notin Credentials

\* the call of adapter a was issued, the upstream never answered, and the timer
\* of fetchWithTimeout has aborted the fetch
TimedOut(a) == WasFetched(a) /\ upstream[a].kind = "hang" /\ a \notin inflight

\* C11: a timeout cancels the one adapter call in flight and nothing else: in
\* automatic mode a DeepSeek timeout is followed by an OpenAI attempt (route is
\* about to call OpenAI, or has called it), in forced mode route returns the
\* 504 error at once and the forced adapter is the only adapter invoked.
C11_TimeoutCancelsOneCall ==
    \A a \in Adapters :
        TimedOut(a) =>
            /\ (Automatic /\ a = "deepseek") =>
                  \/ pc = "call" /\ attempt = "openai" /\ invoked = <<"deepseek">> /\ result = NoResult
                  \/ invoked = <<"deepseek", "openai">> /\ Len(fetched) >= 1
            /\ Forced =>
                  /\ Done
                  /\ IsError(result)
                  /\ result.statusCode = 504
                  /\ invoked = <<a>>
                  /\ Len(fetched) = 1

C11_Witness ==
    /\ Done /\ Automatic
    /\ TimedOut("deepseek")
    /\ invoked = <<"deepseek", "openai">>
    /\ WasFetched("openai")
    /\ IsSuccess(result)

\* how often adapter a was entered by this call of route
TimesInvoked(a) == Cardinality({ i \in DOMAIN invoked : invoked[i] = a })

\* how often this call of route sent a POST to adapter a
TimesFetched(a) == Cardinality({ i \in DOMAIN fetched : fetched[i].provider = a })

\* C13: within one call of route the attempts are sequential and never
\* retried: at most one upstream call is in flight at any time, the call in
\* flight is the one of the adapter route is waiting for, and every adapter is
\* invoked, and sent a POST, at most once.
C13_SequentialNoRetry ==
    /\ Cardinality(inflight) <= 1
    /\ inflight = (IF pc = "await" THEN {attempt} ELSE {})
    /\ \A a \in Adapters :
          /\ TimesInvoked(a) <= 1
          /\ TimesFetched(a) <= TimesInvoked(a)

C13_Witness ==
    /\ Done /\ Automatic
    /\ IsError(result)
    /\ TimesFetched("deepseek") = 1
    /\ TimesFetched("openai") = 1
    /\ invoked = <<"deepseek", "openai">>

(***************************************************************************)
(* Two calls of LlmRouterService.route side by side.  The service has no   *)
(* fields: each call has its own rawBody, traceId, request and result, the *)
(* calls share process.env and the upstream providers, and they interleave *)
(* at their awaits.                                                        *)
(***************************************************************************)
\* the traceId the controller hands to each call
CallTraceId(c) == IF c = "first" THEN "trace-1" ELSE "trace-2"

TwoCallBodies == { JsonText(v) : v \in ValidPayloads } \cup { InvalidText }

TwoCallBehaviours ==
    { [kind |-> "hang"],
      Response(503, InvalidText, Null),
      Response(200, JsonText(ChatBody(<<"c">>)), Null),
      Response(200, JsonText(Obj([output_text |-> Str(<<"a">>)])), Null) }

TwoInit ==
    /\ env \in RouterEnvs
    /\ upstream \in [Adapters -> TwoCallBehaviours]
    /\ RouterIdle
    /\ TranslationIdle
    /\ TwoCallsIdle
    /\ NormalizerIdle
    /\ ReviewIdle

\* the call after an adapter threw: OpenAI is next, or route's catch returns
ThrewIn(call, adapter, error) ==
    IF FallsBack(call.request, adapter, error)
    THEN [call EXCEPT !.pc = "call", !.attempt = "openai"]
    ELSE [call EXCEPT !.pc = "done", !.attempt = "none",
                      !.result = RouteFailure(error, call.traceId)]

\* the call after an adapter returned a ProviderResult
ReturnedIn(call, response) ==
    [call EXCEPT !.pc = "done", !.attempt = "none", !.result = RouteSuccess(response)]

\* call c enters route: parseJsonBody, validateRequestPayload, choice of the adapter
RouteEntered(c, raw) ==
    /\ calls[c].pc = "idle"
    /\ LET tid == CallTraceId(c)
           payload == parseJsonBody(raw)
           validated == IF payload.ok THEN validateRequestPayload(payload.value) ELSE payload
       IN  calls' = [calls EXCEPT ![c] =
              IF validated.ok
              THEN [@ EXCEPT !.rawBody = raw, !.traceId = tid, !.request = validated.value,
                             !.attempt = FirstAdapter(validated.value), !.pc = "call"]
              ELSE [@ EXCEPT !.rawBody = raw, !.traceId = tid, !.pc = "done",
                             !.result = RouteFailure(validated.error, tid)]]
    /\ UNCHANGED <<env, upstream, received, routerVars, translationVars, normalizerVars, reviewVars>>

\* a service that answers from the result of another call with the same body
AdapterEntered_Cached(c) ==
    /\ calls[c].pc = "call"
    /\ LET call == calls[c]
           adapter == call.attempt
           config == IF adapter = "deepseek" THEN getDeepseekConfig(env) ELSE getOpenAiConfig(env)
           entered == [call EXCEPT !.invoked = Append(@, adapter)]
           post == FetchRequest(adapter, config.value, call.traceId, TimeoutOf(adapter))
           cached == { d \in CallIds : /\ calls[d].pc = "done"
                                       /\ calls[d].rawBody = call.rawBody
                                       /\ calls[d].result.statusCode = 200 }
       IN  IF cached # {}
           THEN /\ calls' = [calls EXCEPT ![c] =
                       ReturnedIn(call, calls[CHOOSE d \in cached : TRUE].result.body)]
                /\ UNCHANGED received
           ELSE IF config.ok
           THEN /\ calls' = [calls EXCEPT ![c] =
                       [entered EXCEPT !.fetched = Append(@, post), !.pc = "await"]]
                /\ received' = Append(received, post)
           ELSE /\ calls' = [calls EXCEPT ![c] = ThrewIn(entered, adapter, config.error)]
                /\ UNCHANGED received
    /\ UNCHANGED <<env, upstream, routerVars, translationVars, normalizerVars, reviewVars>>

\* call c runs callDeepseek or callOpenAi up to the await of fetchWithTimeout
AdapterEntered(c) ==
    /\ calls[c].pc = "call"
    /\ LET call == calls[c]
           adapter == call.attempt
           config == IF adapter = "deepseek" THEN getDeepseekConfig(env) ELSE getOpenAiConfig(env)
           entered == [call EXCEPT !.invoked = Append(@, adapter)]
           post == FetchRequest(adapter, config.value, call.traceId, TimeoutOf(adapter))
       IN  IF config.ok
           THEN /\ calls' = [calls EXCEPT ![c] =
                       [entered EXCEPT !.fetched = Append(@, post), !.pc = "await"]]
                /\ received' = Append(received, post)
           ELSE /\ calls' = [calls EXCEPT ![c] = ThrewIn(entered, adapter, config.error)]
                /\ UNCHANGED received
    /\ UNCHANGED <<env, upstream, routerVars, translationVars, normalizerVars, reviewVars>>

\* the await of fetchWithTimeout of call c ends, its adapter and route run on
FetchSettles(c) ==
    /\ calls[c].pc = "await"
    /\ LET call == calls[c]
           adapter == call.attempt
           outcome == fetchWithTimeout(upstream[adapter], TimeoutOf(adapter))
           returned == IF adapter = "deepseek"
                       THEN callDeepseekResume(getDeepseekConfig(env).value,
                                               outcome.value, call.traceId)
                       ELSE callOpenAiResume(getOpenAiConfig(env).value,
                                             outcome.value, call.traceId)
       IN  calls' = [calls EXCEPT ![c] =
              IF ~outcome.ok THEN ThrewIn(call, adapter, outcome.error)
              ELSE IF returned.ok THEN ReturnedIn(call, returned.value)
              ELSE ThrewIn(call, adapter, returned.error)]
    /\ UNCHANGED <<env, upstream, received, routerVars, translationVars, normalizerVars, reviewVars>>

TwoNext ==
    \E c \in CallIds :
        \/ \E raw \in TwoCallBodies : RouteEntered(c, raw)
        \/ AdapterEntered(c)
        \/ FetchSettles(c)

TwoSpec == TwoInit /\ [][TwoNext]_vars

\* both calls have returned, and they were handed the same request
BothDone == \A c \in CallIds : calls[c].pc = "done"
SameRequest == calls["first"].rawBody = calls["second"].rawBody

\* the POSTs the upstreams received that carry the traceId of call c
ReceivedFrom(c) == SelectSeq(received, LAMBDA post : post.traceId = CallTraceId(c))

\* C14: two calls of route with the same request, against providers that
\* answer every POST the same way: when one call succeeds so does the other,
\* with the same provider and an equal output_text, and each call has sent its
\* own POSTs (the upstreams received from each call exactly what that call
\* fetched, a success has fetched at least once), however the calls interleave.
C14_TwoCallsIndependent ==
    /\ \A c \in CallIds : ReceivedFrom(c) = calls[c].fetched
    /\ (BothDone /\ SameRequest) =>
          \A c, d \in CallIds :
              IsSuccess(calls[c].result) =>
                  /\ IsSuccess(calls[d].result)
                  /\ calls[d].result.body.output_text = calls[c].result.body.output_text
                  /\ calls[d].result.body.provider = calls[c].result.body.provider
                  /\ Len(calls[c].fetched) >= 1
                  /\ Len(calls[d].fetched) = Len(calls[c].fetched)

C14_Witness ==
    /\ BothDone /\ SameRequest
    /\ IsSuccess(calls["first"].result)
    /\ IsSuccess(calls["second"].result)
    /\ Len(received) = 4
    /\ received[1].traceId # received[2].traceId
    /\ received[3].traceId # received[4].traceId

(***************************************************************************)
(* extractTextFromProviderBody on its own: a body is chosen, the function  *)
(* is applied to it.                                                       *)
(***************************************************************************)
\* an item of a structured output array with its content blocks
Item(blocks) == Obj([content |-> Arr(blocks)])
TextBlock(s) == Obj([text |-> Str(s)])

\* the JSON object that has the fields of f that are not Undefined
BodyOf(f) == Obj([k \in { x \in DOMAIN f : f[x] # Undefined } |-> f[k]])

\* bodies made of the fields extractTextFromProviderBody reads; Undefined: no such field
NormalizerBodies ==
    { Null }
    \cup { BodyOf(f) : f \in
            [output_text : { Undefined, Str(<<"x">>), Str(<<" ">>), Num(1) },
             output : { Undefined, Str(<<"o">>), Arr(<<>>),
                        Arr(<<Item(<<TextBlock(<<"a">>)>>)>>),
                        Arr(<<Item(<<TextBlock(<<"a">>), TextBlock(<<"b">>)>>)>>),
                        Arr(<<Item(<<TextBlock(<<" ", "a">>),
                                     Obj([content |-> Obj([value |-> Str(<<"b", " ">>)])])>>)>>),
                        Arr(<<Item(<<TextBlock(<<" ">>)>>)>>),
                        Arr(<<Item(<<TextBlock(<<"a">>)>>), Item(<<TextBlock(<<"b">>)>>)>>),
                        Arr(<<Item(<<>>), Item(<<Obj([content |-> Str(<<"b">>)])>>)>>) },
             choices : { Undefined, Arr(<<>>), ChatBody(<<"c">>).f.choices,
                         ChatBody(<<" ">>).f.choices },
             text : { Undefined, Str(<<"t">>), Str(<<" ">>), Num(0) },
             result : { Undefined, Str(<<"r">>), Str(<<>>) },
             response : { Undefined, Str(<<"p">>), Null }] }

\* an environment without any variable set
EmptyEnv == [k \in DOMAIN (CHOOSE e \in RouterEnvs : TRUE) |-> Undefined]

ExtractInit ==
    /\ env = EmptyEnv
    /\ upstream = [a \in Adapters |-> [kind |-> "unknown"]]
    /\ RouterIdle
    /\ TranslationIdle
    /\ TwoCallsIdle
    /\ providerBody \in NormalizerBodies
    /\ extractedText = Undefined
    /\ ReviewIdle

\* normalizeProviderResponse calls extractTextFromProviderBody(body)
Extract ==
    /\ extractedText = Undefined
    /\ extractedText' = extractTextFromProviderBody(providerBody)
    /\ UNCHANGED <<env, upstream, routerVars, translationVars, twoCallVars, providerBody, reviewVars>>

ExtractSpec == ExtractInit /\ [][Extract]_vars

\* the function has returned
Extracted == extractedText # Undefined

\* rule 1: the top-level output_text, when it is a non-blank string
RuleOutputText(body) ==
    LET outputText == Get(body, "output_text")
    IN  IF TypeOf(outputText) = "string" /\ Trim(outputText.s) # <<>>
        THEN Str(Trim(outputText.s)) ELSE Null

\* rule 2: the structured output array, when the function finds text in it
RuleOutputArray(body) ==
    IF OutputArrayText(Get(body, "output")) # <<>>
    THEN Str(OutputArrayText(Get(body, "output"))) ELSE Null

\* rule 3: choices[0].message.content, when it is a non-blank string
RuleChatCompletion(body) ==
    LET chatCompletion == Get(Get(First(Get(body, "choices")), "message"), "content")
    IN  IF TypeOf(chatCompletion) = "string" /\ Trim(chatCompletion.s) # <<>>
        THEN Str(Trim(chatCompletion.s)) ELSE Null

\* rule 4: the value the function takes from the fallback fields
RuleFallback(body) ==
    LET fallback == Coalesce(Get(body, "text"),
                    Coalesce(Get(body, "output"),
                    Coalesce(Get(body, "result"),
                    Coalesce(Get(body, "response"), Null))))
    IN  IF TypeOf(fallback) = "string" /\ Trim(fallback.s) # <<>>
        THEN Str(Trim(fallback.s)) ELSE Null

Rules(body) ==
    <<RuleOutputText(body), RuleOutputArray(body), RuleChatCompletion(body), RuleFallback(body)>>

\* the numbers of the rules that yield text for the body
Yielding(body) == { k \in DOMAIN Rules(body) : Rules(body)[k] # Null }

\* C15: the rules are applied in the order output_text, output array,
\* choices[0].message.content, fallback fields: the function returns the text
\* of the lowest-numbered rule that yields text, also when several rules yield
\* text, and null when none does.
C15_FirstRuleWins ==
    (Extracted /\ providerBody # Null) =>
        LET yielding == Yielding(providerBody)
            lowest == CHOOSE k \in yielding : \A j \in yielding : k <= j
        IN  IF yielding = {}
            THEN extractedText = Null
            ELSE extractedText = Rules(providerBody)[lowest]

C15_Witness ==
    /\ Extracted
    /\ Yielding(providerBody) = {2, 3, 4}
    /\ RuleOutputArray(providerBody) # RuleChatCompletion(providerBody)
    /\ RuleOutputArray(providerBody) # RuleFallback(providerBody)
    /\ extractedText = RuleOutputArray(providerBody)

\* the strings the content blocks of every item of an output array hold, in
\* document order
RECURSIVE ItemsParts(_)
ItemsParts(items) ==
    IF items = <<>> THEN <<>>
    ELSE LET content == Get(Head(items), "content")
         IN  (IF content.t = "array" THEN ContentParts(content.a) ELSE <<>>)
             \o ItemsParts(Tail(items))

\* the text of a structured output array: every piece of every item, joined and trimmed
EveryItemText(output) == Trim(Join(ItemsParts(output.a)))

\* the body has a structured output array and no output_text that goes before it
HasOutputArray(body) ==
    /\ body # Null
    /\ RuleOutputText(body) = Null
    /\ Get(body, "output").t = "array"
    /\ Len(Get(body, "output").a) > 0

\* C16: for a body with a structured output array the function returns the
\* text of every content block of every item, in document order, joined and
\* trimmed, whenever that text is not blank: the second and later items count.
C16_EveryItemCollected ==
    (Extracted /\ HasOutputArray(providerBody)
               /\ EveryItemText(Get(providerBody, "output")) # <<>>) =>
        extractedText = Str(EveryItemText(Get(providerBody, "output")))

\* the fallback fields in their priority
FallbackFields == <<"text", "output", "result", "response">>

\* v is a string that is not blank
NonBlankString(v) == TypeOf(v) = "string" /\ Trim(v.s) # <<>>

\* the fallback fields of the body that hold a non-blank string
FallbackHolding(body) ==
    { i \in DOMAIN FallbackFields : NonBlankString(Get(body, FallbackFields[i])) }

\* C17: the function returns null only if no rule yields a non-blank string:
\* when the first three rules yield nothing and a fallback field holds a
\* non-blank string, the function returns the trimmed string of the first such
\* field in the priority text, output, result, response, whatever the fields
\* before it hold.
C17_NullOnlyIfNothingYields ==
    (Extracted /\ providerBody # Null
               /\ RuleOutputText(providerBody) = Null
               /\ RuleOutputArray(providerBody) = Null
               /\ RuleChatCompletion(providerBody) = Null
               /\ FallbackHolding(providerBody) # {}) =>
        LET holding == FallbackHolding(providerBody)
            first == CHOOSE i \in holding : \A j \in holding : i <= j
        IN  /\ extractedText # Null
            /\ extractedText = Str(Trim(Get(providerBody, FallbackFields[first]).s))

(***************************************************************************)
(* TranslationRouterService                                                *)
(***************************************************************************)
\* class HttpError of the translation router: status, message, code, details
THttpError(status, message, code, details) ==
    [class |-> "HttpError", status |-> status, message |-> message,
     code |-> code, details |-> details]

\* isNonEmptyString(x)
isNonEmptyString(x) == TypeOf(x) = "string" /\ Len(Trim(x.s)) > 0

RECURSIVE pickFirstEnv(_, _)
\* pickFirstEnv(...names): the first non-blank variable, trimmed, else ''
pickFirstEnv(e, names) ==
    IF names = <<>> THEN Str(<<>>)
    ELSE IF isNonEmptyString(e[Head(names)])
         THEN Str(Trim(e[Head(names)].s))
         ELSE pickFirstEnv(e, Tail(names))

\* body[k] for a body that may be any value
Field(body, k) == IF Truthy(body) THEN Get(body, k) ELSE Undefined

\* getBodyField(body, camel, snake)
getBodyField(body, camel, snake) ==
    IF Field(body, camel) # Undefined THEN Field(body, camel)
    ELSE IF Field(body, snake) # Undefined THEN Field(body, snake)
    ELSE Undefined

\* normalizeProvider(raw)
normalizeProvider(raw) ==
    LET lower == Trim(ToLowerCase(raw.s))
    IN  IF Nullish(raw) THEN Return(Null)
        ELSE IF TypeOf(raw) # "string"
        THEN Throw(THttpError(400, <<"provider", "must", "be", "a", "string", "when", "provided">>,
                              "INVALID_PROVIDER", Undefined))
        ELSE IF lower # deepseek /\ lower # groq /\ lower # openai
        THEN Throw(THttpError(400, <<"provider", "must", "be", "deepseek", "groq", "or", "openai",
                                     "when", "provided">>, "INVALID_PROVIDER", Undefined))
        ELSE Return(Str(lower))

\* mergeContext(rawContext, rawUserMessage)
mergeContext(rawContext, rawUserMessage) ==
    LET parts == (IF isNonEmptyString(rawContext) THEN <<Trim(rawContext.s)>> ELSE <<>>)
              \o (IF isNonEmptyString(rawUserMessage)
                  THEN <<<<"userMessage:", " ">> \o Trim(rawUserMessage.s)>> ELSE <<>>)
        merged == IF Len(parts) = 2 THEN parts[1] \o <<"\n\n">> \o parts[2]
                  ELSE IF Len(parts) = 1 THEN parts[1] ELSE <<>>
    IN  IF Trim(merged) # <<>> THEN Str(merged) ELSE Null

\* TranslationRouterService.validate(body)
validate(body) ==
    LET providerRaw == getBodyField(body, "provider", "provider")
        sourceText == getBodyField(body, "sourceText", "source_text")
        targetLang == getBodyField(body, "targetLang", "target_lang")
        sourceLang == getBodyField(body, "sourceLang", "source_lang")
        context == getBodyField(body, "context", "context")
        userMessage == getBodyField(body, "userMessage", "user_message")
        customPrompt == getBodyField(body, "customPrompt", "custom_prompt")
        normalizedProvider == normalizeProvider(providerRaw)
    IN  IF ~isNonEmptyString(sourceText)
        THEN Throw(THttpError(400, <<"Missing", "required", "field:", "sourceText/source_text">>,
                              "MISSING_SOURCE_TEXT", Undefined))
        ELSE IF ~isNonEmptyString(targetLang)
        THEN Throw(THttpError(400, <<"Missing", "required", "field:", "targetLang/target_lang">>,
                              "MISSING_TARGET_LANG", Undefined))
        ELSE IF ~normalizedProvider.ok THEN normalizedProvider
        ELSE Return([provider |-> normalizedProvider.value,
                     sourceText |-> Trim(sourceText.s),
                     sourceLang |-> IF isNonEmptyString(sourceLang)
                                    THEN Trim(sourceLang.s) ELSE <<"a", "u", "t", "o">>,
                     targetLang |-> Trim(targetLang.s),
                     context |-> mergeContext(context, userMessage),
                     customPrompt |-> IF isNonEmptyString(customPrompt)
                                      THEN Str(Trim(customPrompt.s)) ELSE Null])

(***************************************************************************)
(* Text written by a model: an optional opening code fence, the text       *)
(* between the fences, an optional closing fence.                          *)
(***************************************************************************)
Written(open, inner, close) == [open |-> open, inner |-> inner, close |-> close]
Plain(inner) == Written(<<>>, inner, FALSE)
\* FENCE stands for the three backquotes that open or close a code block
Fences == { <<>>, <<"FENCE">>, <<"FENCE", "json">>, <<"FENCE", "JSON">> }

\* a text with the white space around it removed
TrimText(text) ==
    IF text.raw = "invalid"
    THEN IF Trim(text.s) = <<>> THEN EmptyText ELSE ProseText(Trim(text.s))
    ELSE text

\* the characters of a text that JSON.parse does not turn into an object
CharsOf(text) ==
    CASE text.raw = "empty" -> <<>>
      [] text.raw = "invalid" -> text.s
      [] text.v.t = "null" -> <<"n", "u", "l", "l">>
      [] text.v.t = "number" -> <<ToString(text.v.n)>>
      [] text.v.t = "boolean" -> <<ToString(text.v.b)>>
      [] text.v.t = "string" -> <<"\"">> \o text.v.s \o <<"\"">>
      [] OTHER -> <<"{}">>

\* String(content) for the content of a chat message
StringOf(content) ==
    CASE content.t = "string" -> content.s
      [] content.t \in {"number", "boolean"} -> Plain(JsonText(content))
      [] content.t = "array" -> Plain(EmptyText)
      [] OTHER -> Plain(ProseText(<<"[object Object]">>))

\* record f with f[k] set to v where f has no k or a nullish one
WithDefault(f, k, v) ==
    IF k \in DOMAIN f /\ ~Nullish(f[k])
    THEN f
    ELSE [x \in DOMAIN f \cup {k} |-> IF x = k THEN v ELSE f[x]]

\* toCanonicalTranslationJsonString(raw, sourceText): both replace() calls remove
\* the fences where there are any, JSON.parse decides between the two returns
toCanonicalTranslationJsonString(raw, sourceText) ==
    LET stripped == TrimText(raw.inner)
        obj == JsonParse(stripped)
        own == IF obj.value.t = "object" THEN obj.value.f ELSE <<>>
    IN  IF obj.ok /\ Truthy(obj.value) /\ TypeOf(obj.value) = "object"
        THEN JsonText(Obj(
                WithDefault(
                    WithDefault(
                        WithDefault(own, "sourceText", Str(sourceText)),
                        "translatedText", Str(<<>>)),
                    "sourcePronunciation", Str(<<>>))))
        ELSE JsonText(Obj([sourceText |-> Str(sourceText),
                           translatedText |-> Str(CharsOf(stripped)),
                           sourcePronunciation |-> Str(<<>>)]))

TProviders == { "deepseek", "groq", "openai" }

\* the names each adapter gives pickFirstEnv for its API key
KeyNames(provider) ==
    CASE provider = "deepseek" -> <<"DEEPSEEK_API_KEY", "DEEPSEEK_API_KEY">>
      [] provider = "groq" -> <<"GROQ_KIA_API_KEY", "GROQ_API_KEY">>
      [] OTHER -> <<"OPENAI_KIA_API_KEY", "OPENAI_API_KEY", "OPENAI_KIASPORA_API_KEY">>

\* the name each adapter reports as missing
MissingKeyName(provider) ==
    CASE provider = "deepseek" -> "DEEPSEEK_API_KEY"
      [] provider = "groq" -> "GROQ_KIA_API_KEY"
      [] OTHER -> "OPENAI_KIA_API_KEY"

ModelName(provider) ==
    CASE provider = "deepseek" -> "DEEPSEEK_TRANSLATION_MODEL"
      [] provider = "groq" -> "GROQ_TRANSLATION_MODEL"
      [] OTHER -> "OPENAI_TRANSLATION_MODEL"

DefaultModel(provider) ==
    CASE provider = "deepseek" -> Str(<<"deepseek-chat">>)
      [] provider = "groq" -> Str(<<"llama-3.1-8b-instant">>)
      [] OTHER -> Str(<<"gpt-4o-mini">>)

Endpoint(provider) ==
    CASE provider = "deepseek" -> "https://api.deepseek.com/chat/completions"
      [] provider = "groq" -> "https://api.groq.com/openai/v1/chat/completions"
      [] OTHER -> "https://api.openai.com/v1/chat/completions"

UpperName(provider) ==
    CASE provider = "deepseek" -> "DEEPSEEK"
      [] provider = "groq" -> "GROQ"
      [] OTHER -> "OPENAI"

Label(provider) ==
    CASE provider = "deepseek" -> "DeepSeek"
      [] provider = "groq" -> "Groq"
      [] OTHER -> "OpenAI"

\* callDeepSeek / callGroq / callOpenAI: the key lookup that precedes fetch
TApiKey(provider, e) ==
    LET apiKey == pickFirstEnv(e, KeyNames(provider))
    IN  IF ~Truthy(apiKey)
        THEN Throw(THttpError(500, <<"Missing", MissingKeyName(provider)>>,
                              "MISSING_" \o MissingKeyName(provider), Undefined))
        ELSE Return(apiKey)

\* callDeepSeek / callGroq / callOpenAI: the model named in the request
TModel(provider, e) ==
    IF Truthy(pickFirstEnv(e, <<ModelName(provider)>>))
    THEN pickFirstEnv(e, <<ModelName(provider)>>)
    ELSE DefaultModel(provider)

\* callDeepSeek / callGroq / callOpenAI, from the response of fetch on
TCallResume(provider, payload, e, resp) ==
    LET parsed == IF resp.text # EmptyText /\ JsonParse(resp.text).ok
                  THEN JsonParse(resp.text).value ELSE EmptyObj
        content == Coalesce(Get(Get(First(Get(parsed, "choices")), "message"), "content"),
                            Str(Plain(EmptyText)))
    IN  IF ~ResponseOk(resp)
        THEN Throw(THttpError(502,
                     <<Label(provider), "HTTP", ToString(resp.status)>>
                        \o (IF resp.statusText # "" THEN <<resp.statusText>> ELSE <<>>),
                     UpperName(provider) \o "_HTTP_ERROR",
                     Obj([status |-> Num(resp.status), bodySnippet |-> Str(<<resp.text>>)])))
        ELSE Return([translation |-> toCanonicalTranslationJsonString(StringOf(content),
                                                                      payload.sourceText),
                     detected_source_lang |-> IF payload.sourceLang # <<>>
                                              THEN payload.sourceLang ELSE <<"a", "u", "t", "o">>,
                     provider |-> provider,
                     latency_ms |-> resp.latency,
                     raw_provider_meta |->
                        [model |-> TModel(provider, e),
                         usage |-> Coalesce(Get(parsed, "usage"), Null),
                         id |-> Coalesce(Get(parsed, "id"), Null)]])

\* handle: the provider called first
TFirstProvider(req) ==
    CASE req.provider = Str(groq) -> "groq"
      [] req.provider = Str(openai) -> "openai"
      [] OTHER -> "deepseek"

TNextProvider_SkipGroq(req, provider) ==
    IF req.provider # Null THEN "none"
    ELSE IF provider = "deepseek" THEN "openai" ELSE "none"

\* handle: the provider tried after a failed one in the default chain, or "none"
TNextProvider(req, provider) ==
    IF req.provider # Null THEN "none"
    ELSE CASE provider = "deepseek" -> "groq"
           [] provider = "groq" -> "openai"
           [] OTHER -> "none"

\* handle: the error thrown when no provider is left to try
TUnavailable(req, error) ==
    IF req.provider # Null
    THEN THttpError(502,
            <<Label(TFirstProvider(req)), "translation", "is", "currently", "unavailable;",
              "please", "try", "again", "later">>,
            UpperName(TFirstProvider(req)) \o "_UNAVAILABLE",
            Obj([message |-> error.message]))
    ELSE THttpError(502,
            <<"Translation", "providers", "are", "currently", "unavailable;",
              "please", "try", "again", "later">>,
            "PROVIDERS_UNAVAILABLE",
            Obj([message |-> error.message]))

(***************************************************************************)
(* Inputs of TranslationRouterService.handle                               *)
(***************************************************************************)
es == <<"e", "s">>
hola == <<"h", "o", "l", "a">>

TBodies ==
    { Obj([sourceText |-> Str(hi), targetLang |-> Str(es)]),
      Obj([source_text |-> Str(<<" ">> \o hi), target_lang |-> Str(es), provider |-> Null,
           context |-> Str(<<"c">>), userMessage |-> Str(<<"u">>),
           customPrompt |-> Str(<<"p">>), sourceLang |-> Str(<<"e", "n">>)]),
      Obj([sourceText |-> Str(hi), targetLang |-> Str(es),
           provider |-> Str(<<"D", "e", "e", "p", "S", "e", "e", "k", " ">>)]),
      Obj([sourceText |-> Str(hi), target_lang |-> Str(es), provider |-> Str(groq)]),
      Obj([sourceText |-> Str(hi), targetLang |-> Str(es), provider |-> Str(OpenAIMixedCase)]),
      Null,
      EmptyObj,
      Obj([sourceText |-> Str(<<" ">>), targetLang |-> Str(es)]),
      Obj([sourceText |-> Null, source_text |-> Str(hi), targetLang |-> Str(es)]),
      Obj([sourceText |-> Str(hi)]),
      Obj([sourceText |-> Str(hi), targetLang |-> Str(es), provider |-> Num(1)]),
      Obj([sourceText |-> Str(hi), targetLang |-> Str(es), provider |-> Str(<<"b", "i", "n", "g">>)]) }

\* what a model may write as the content of its message
Contents ==
    { Str(Plain(ProseText(s))) : s \in Texts({" ", "a"}, MaxTextLen) }
    \cup { Str(Written(f, JsonText(Obj([translatedText |-> Str(hola)])), c)) :
              f \in Fences, c \in BOOLEAN }
    \cup { Str(Plain(JsonText(v))) :
              v \in { Obj([translatedText |-> Str(<<>>)]), Obj([note |-> Str(hola)]),
                      Arr(<<>>), Null, Num(5), Str(<<>>) } }
    \cup { Num(7), Null, Obj([text |-> Str(Plain(ProseText(hola)))]) }

TResponse(status, statusText, text) ==
    [kind |-> "response", status |-> status, statusText |-> statusText, text |-> text,
     latency |-> 1]

\* answers of an upstream chat-completions endpoint
TResponses ==
    { TResponse(503, "Service Unavailable", InvalidText),
      TResponse(429, "", JsonText(Obj([error |-> Str(<<"e">>)]))),
      TResponse(200, "OK", EmptyText),
      TResponse(200, "OK", InvalidText),
      TResponse(200, "OK", JsonText(Null)),
      TResponse(200, "OK", JsonText(EmptyObj)) }
    \cup { TResponse(200, "OK",
              JsonText(Obj([choices |-> Arr(<<Obj([message |-> Obj([content |-> c])])>>),
                            id |-> Str(<<"id-1">>)]))) : c \in Contents }

Unknown == [kind |-> "unknown"]

TranslationEnvs ==
    [ DEEPSEEK_API_KEY : { Undefined, Str(<<" ">>), Str(<<" ", "sk-deepseek">>) },
      DEEPSEEK_URL : { Undefined },
      DEEPSEEK_PROMPT_MODEL : { Undefined },
      OPENAI_KIA_API_KEY : { Undefined, Str(<<"sk-openai">>) },
      OPENAI_PROMPT_MODEL : { Undefined },
      DEEPSEEK_TRANSLATION_MODEL : { Undefined, Str(<<"deepseek-v3">>) },
      GROQ_TRANSLATION_MODEL : { Undefined },
      OPENAI_TRANSLATION_MODEL : { Undefined },
      OPENAI_API_KEY : { Undefined, Str(<<"sk-openai-2">>) },
      OPENAI_KIASPORA_API_KEY : { Undefined },
      GROQ_KIA_API_KEY : { Undefined, Str(<<"sk-groq">>) },
      GROQ_API_KEY : { Undefined } ]

TInit ==
    /\ env \in TranslationEnvs
    /\ upstream = [p \in TProviders |-> Unknown]
    /\ RouterIdle
    /\ TranslationIdle
    /\ TwoCallsIdle
    /\ NormalizerIdle
    /\ ReviewIdle

(***************************************************************************)
(* TranslationRouterService.handle, step by step                           *)
(***************************************************************************)
\* an adapter call threw: try the next provider, or throw the 502 of handle
TAdapterThrew(provider, error) ==
    IF TNextProvider(trequest, provider) # "none"
    THEN /\ tpc' = "call"
         /\ tattempt' = TNextProvider(trequest, provider)
         /\ UNCHANGED tresult
    ELSE /\ tpc' = "done"
         /\ tattempt' = "none"
         /\ tresult' = Throw(TUnavailable(trequest, error))

\* handle is entered: validate, choice of the first provider
Handle(body) ==
    /\ tpc = "idle"
    /\ tbody' = body
    /\ LET validated == validate(body)
       IN  IF validated.ok
           THEN /\ trequest' = validated.value
                /\ tattempt' = TFirstProvider(validated.value)
                /\ tpc' = "call"
                /\ UNCHANGED tresult
           ELSE /\ trequest' = Null
                /\ tattempt' = "none"
                /\ tpc' = "done"
                /\ tresult' = Throw(validated.error)
    /\ UNCHANGED <<env, upstream, besidesTranslation, tinvoked, tfetched>>

\* callDeepSeek / callGroq / callOpenAI up to the await of fetch
TCall ==
    /\ tpc = "call"
    /\ tinvoked' = Append(tinvoked, tattempt)
    /\ LET apiKey == TApiKey(tattempt, env)
       IN  IF apiKey.ok
           THEN /\ tfetched' = Append(tfetched,
                      [provider |-> tattempt, url |-> Endpoint(tattempt),
                       authorization |-> <<"Bearer", apiKey.value>>,
                       model |-> TModel(tattempt, env)])
                /\ tpc' = "await"
                /\ UNCHANGED <<tattempt, tresult>>
           ELSE /\ TAdapterThrew(tattempt, apiKey.error)
                /\ UNCHANGED tfetched
    /\ UNCHANGED <<env, upstream, besidesTranslation, tbody, trequest>>

\* the upstream answers: the adapter reads the body and returns or throws
TFetchResolves(resp) ==
    /\ tpc = "await"
    /\ upstream[tattempt] = Unknown
    /\ upstream' = [upstream EXCEPT ![tattempt] = resp]
    /\ LET returned == TCallResume(tattempt, trequest, env, resp)
       IN  IF returned.ok
           THEN /\ tpc' = "done"
                /\ tattempt' = "none"
                /\ tresult' = returned
           ELSE TAdapterThrew(tattempt, returned.error)
    /\ UNCHANGED <<env, besidesTranslation, tbody, trequest, tinvoked, tfetched>>

\* the connection fails: fetch rejects with a TypeError
TFetchRejects ==
    /\ tpc = "await"
    /\ upstream[tattempt] = Unknown
    /\ upstream' = [upstream EXCEPT ![tattempt] = [kind |-> "neterr"]]
    /\ TAdapterThrew(tattempt, NativeError("TypeError", <<"fetch", "failed">>))
    /\ UNCHANGED <<env, besidesTranslation, tbody, trequest, tinvoked, tfetched>>

\* the upstream never answers: fetch has no timeout, the call stays in its await
TFetchHangs ==
    /\ tpc = "await"
    /\ upstream[tattempt] = Unknown
    /\ upstream' = [upstream EXCEPT ![tattempt] = [kind |-> "hang"]]
    /\ UNCHANGED <<env, besidesTranslation, translationVars>>

TNext ==
    \/ \E body \in TBodies : Handle(body)
    \/ TCall
    \/ \E resp \in TResponses : TFetchResolves(resp)
    \/ TFetchRejects
    \/ TFetchHangs

TSpec == TInit /\ [][TNext]_vars

(***************************************************************************)
(* Properties of TranslationRouterService.handle                           *)
(***************************************************************************)
TDone == tpc = "done"

\* the translatedText of the canonical JSON string handle returned
TranslatedText == Get(JsonParse(tresult.value.translation).value, "translatedText")

\* provider p answered 2xx without a non-blank choices[0].message.content
TAnsweredBlank(p) ==
    /\ upstream[p].kind = "response"
    /\ ResponseOk(upstream[p])
    /\ LET parsed == IF JsonParse(upstream[p].text).ok
                     THEN JsonParse(upstream[p].text).value ELSE EmptyObj
           content == Get(Get(First(Get(parsed, "choices")), "message"), "content")
       IN  \/ Nullish(content)
           \/ content.t = "string" /\ TrimText(content.s.inner) = EmptyText

\* C7: every success of handle carries a non-empty translated text; a provider
\* that answers 2xx without a non-blank choices[0].message.content is a failed
\* attempt, never the provider of the returned result.
C7_TranslationHasText ==
    (TDone /\ tresult.ok) =>
        /\ TranslatedText.t = "string"
        /\ TranslatedText.s # <<>>
        /\ ~TAnsweredBlank(tresult.value.provider)

\* C12: every adapter call is bounded by a timeout, so a call of handle that
\* waits for an upstream can always go on (the upstream settles the fetch or a
\* timer ends it) until it has returned; it never waits for ever on an upstream
\* that sends nothing.
C12_EveryCallReturns ==
    (tpc = "await") => ENABLED TNext

\* the default order of handle
TDefaultOrder == <<"deepseek", "groq", "openai">>

\* the providers handle may call for the validated request, in order
TOrderOf(req) == IF req.provider = Null THEN TDefaultOrder ELSE <<TFirstProvider(req)>>

\* handle has validated the body (a rejected body reaches no provider)
TValidated == trequest # Null

TWasFetched(p) == \E i \in DOMAIN tfetched : tfetched[i].provider = p

\* the attempt of provider p has failed: no API key (no fetch), a rejected
\* fetch, or an answer outside 2xx
TFailed(p) ==
    /\ \E i \in DOMAIN tinvoked : tinvoked[i] = p
    /\ \/ ~TWasFetched(p)
       \/ upstream[p].kind = "neterr"
       \/ upstream[p].kind = "response" /\ ~ResponseOk(upstream[p])

\* the attempt of provider p has succeeded: a 2xx answer
TSucceeded(p) ==
    /\ TWasFetched(p)
    /\ upstream[p].kind = "response"
    /\ ResponseOk(upstream[p])

\* C27: without a forced provider handle attempts DeepSeek, Groq, OpenAI in
\* this order, each at most once and the next only after the one before has
\* failed, returns the answer of the first that succeeds, and throws 502
\* PROVIDERS_UNAVAILABLE only when all three have failed; with a forced
\* provider it calls that provider only, and a failure of it is a 502 that
\* names the provider.
C27_ProviderOrder ==
    TValidated =>
        LET order == TOrderOf(trequest)
        IN  /\ Len(tinvoked) <= Len(order)
            /\ \A i \in DOMAIN tinvoked :
                  /\ tinvoked[i] = order[i]
                  /\ \A j \in 1..(i - 1) : TFailed(order[j])
            /\ \A p \in TProviders : TSucceeded(p) => tinvoked[Len(tinvoked)] = p
            /\ (TDone /\ tresult.ok) =>
                  /\ tinvoked # <<>>
                  /\ tresult.value.provider = tinvoked[Len(tinvoked)]
                  /\ TSucceeded(tresult.value.provider)
            /\ (TDone /\ ~tresult.ok) =>
                  /\ tinvoked = order
                  /\ \A i \in DOMAIN order : TFailed(order[i])
                  /\ tresult.error.class = "HttpError"
                  /\ tresult.error.status = 502
                  /\ tresult.error.code =
                        IF trequest.provider = Null THEN "PROVIDERS_UNAVAILABLE"
                        ELSE UpperName(TFirstProvider(trequest)) \o "_UNAVAILABLE"
                  /\ trequest.provider # Null =>
                        tresult.error.message[1] = Label(TFirstProvider(trequest))
            /\ (\A i \in DOMAIN order : TFailed(order[i])) => (TDone /\ ~tresult.ok)

\* DeepSeek and Groq have failed and OpenAI, called third, has answered
C27_Witness ==
    /\ TValidated
    /\ trequest.provider = Null
    /\ TDone
    /\ tresult.ok
    /\ tinvoked = TDefaultOrder
    /\ tresult.value.provider = "openai"
    /\ TFailed("deepseek")
    /\ TFailed("groq")

(***************************************************************************)
(* GenerateReviewService   src/src/generate-review/generate-review.service.ts *)
(*                                                                         *)
(* A string of a model output is a sequence of pieces: a piece is a blank  *)
(* or a text without white space (a word, or one character of a numeral).  *)
(***************************************************************************)
REVIEW_DECISIONS == << <<"SPEAK">>, <<"SILENCE">>, <<"EXPLAIN_CONFLICT">>, <<"ASK_LIGHT_QUESTION">> >>
PROMPT_VERSION == <<"v2-spoiler-mode-long-form">>

\* the fewest words parseModelResult accepts in the review text of a SPEAK
MinReviewWords == 500

\* class ServiceError
ServiceError(statusCode, publicMessage) ==
    [class |-> "ServiceError", statusCode |-> statusCode, publicMessage |-> publicMessage]

Range(seq) == { seq[i] : i \in DOMAIN seq }

\* a || b
Or(a, b) == IF Truthy(a) THEN a ELSE b

\* record f with f[k] set to v
With(f, k, v) == [x \in DOMAIN f \cup {k} |-> IF x = k THEN v ELSE f[x]]

\* a list that includes whatever it is asked for
Includes_Anything(list, value) == TRUE

\* Array.prototype.includes
Includes(list, value) == value \in Range(list)

\* an asOptionalString that does not trim: a blank string is a string
asOptionalString_Untrimmed(value) ==
    IF TypeOf(value) # "string" THEN Null ELSE value

\* asOptionalString(value)
asOptionalString(value) ==
    IF TypeOf(value) # "string" THEN Null
    ELSE IF Trim(value.s) = <<>> THEN Null
    ELSE Str(Trim(value.s))

\* numbers that are no integers, and the numbers that are not finite
Frac(n, d) == [t |-> "number", n |-> n, d |-> d]
Infinity == [t |-> "number", inf |-> TRUE]
NaN == [t |-> "number", nan |-> TRUE]

\* Number.isFinite(v) for a number v
IsFinite(v) == "n" \in DOMAIN v

Digits == { "0", "1", "2", "3", "4", "5", "6", "7", "8", "9" }

DigitValue(c) ==
    CASE c = "0" -> 0 [] c = "1" -> 1 [] c = "2" -> 2 [] c = "3" -> 3 [] c = "4" -> 4
      [] c = "5" -> 5 [] c = "6" -> 6 [] c = "7" -> 7 [] c = "8" -> 8 [] c = "9" -> 9

RECURSIVE DigitsValue(_)
DigitsValue(s) ==
    IF s = <<>> THEN 0
    ELSE 10 * DigitsValue(SubSeq(s, 1, Len(s) - 1)) + DigitValue(s[Len(s)])

RECURSIVE PowerOfTen(_)
PowerOfTen(k) == IF k = 0 THEN 1 ELSE 10 * PowerOfTen(k - 1)

RECURSIVE Gcd(_, _)
Gcd(a, b) == IF b = 0 THEN a ELSE Gcd(b, a % b)

\* the number n / d: an integer where d divides n, a fraction in lowest terms
\* otherwise, so that one number has one representation
Quotient(n, d) ==
    LET g == Gcd(IF n < 0 THEN -n ELSE n, d)
    IN  IF d \div g = 1 THEN Num(n \div g) ELSE Frac(n \div g, d \div g)

\* Number(s) for a trimmed, non-empty string of the characters this model
\* writes numerals with: digits, one sign, one decimal point, and Infinity
NumberOf(s) ==
    LET negative == Head(s) = "-"
        sign == IF negative THEN -1 ELSE 1
        digits == IF negative THEN Tail(s) ELSE s
        points == { i \in DOMAIN digits : digits[i] = "." }
        point == CHOOSE i \in points : TRUE
        whole == SubSeq(digits, 1, point - 1)
        fraction == SubSeq(digits, point + 1, Len(digits))
        AllDigits(x) == \A i \in DOMAIN x : x[i] \in Digits
    IN  IF digits = <<"Infinity">> THEN Infinity
        ELSE IF digits = <<>> THEN NaN
        ELSE IF points = {}
        THEN IF AllDigits(digits) THEN Num(sign * DigitsValue(digits)) ELSE NaN
        ELSE IF Cardinality(points) = 1 /\ AllDigits(whole) /\ AllDigits(fraction)
                /\ whole \o fraction # <<>>
        THEN IF fraction = <<>>
             THEN Num(sign * DigitsValue(whole))
             ELSE Quotient(sign * DigitsValue(whole \o fraction), PowerOfTen(Len(fraction)))
        ELSE NaN

\* an asNumber that coerces no string: only a number is a number
asNumber_NumbersOnly(value) ==
    IF TypeOf(value) = "number" /\ IsFinite(value) THEN value ELSE Null

\* asNumber(value)
asNumber(value) ==
    IF TypeOf(value) = "number"
    THEN IF IsFinite(value) THEN value ELSE Null
    ELSE IF TypeOf(value) = "string" /\ Trim(value.s) # <<>>
            /\ IsFinite(NumberOf(Trim(value.s)))
    THEN NumberOf(Trim(value.s))
    ELSE Null

\* asObject(value)
asObject(value) ==
    IF value.t = "object" THEN value ELSE Null

\* asStringArray(value): the trimmed, non-empty strings of an array
asStringArray(value) ==
    IF value.t # "array" THEN <<>>
    ELSE LET trimmed == [i \in DOMAIN value.a |->
                            IF TypeOf(value.a[i]) = "string" THEN Trim(value.a[i].s) ELSE <<>>]
             kept == SelectSeq(trimmed, LAMBDA item : item # <<>>)
         IN  [i \in DOMAIN kept |-> Str(kept[i])]

\* a wordCount that counts the pieces of the text, blanks included
wordCount_Pieces(text) == Len(text)

\* wordCount(text): the words between runs of white space
wordCount(text) ==
    LET trimmed == Trim(text)
    IN  Cardinality({ i \in DOMAIN trimmed :
                        /\ trimmed[i] \notin Whitespace
                        /\ (i = 1 \/ trimmed[i - 1] \in Whitespace) })

(***************************************************************************)
(* The output text of the model: an optional opening fence, prose, a       *)
(* payload (no text, a text that is no JSON, or the text of a JSON value), *)
(* prose, an optional closing fence.  Prose is a sequence of words; the    *)
(* words "{" and "}" are braces, no other word holds one.  A payload holds *)
(* braces only when it is the text of a JSON object.                       *)
(***************************************************************************)
ModelText(open, before, payload, after, close) ==
    [open |-> open, before |-> before, payload |-> payload, after |-> after, close |-> close]

\* the bare text of a JSON value
Bare(v) == ModelText(<<>>, <<>>, JsonText(v), <<>>, FALSE)

\* an extractJsonPayload that strips the fence and slices nothing
extractJsonPayload_NoSlice(raw) ==
    IF raw.before = <<>> /\ raw.after = <<>> /\ (raw.open # <<>>) = raw.close
    THEN TrimText(raw.payload)
    ELSE InvalidText

\* extractJsonPayload(raw): the text handed to JSON.parse
extractJsonPayload(raw) ==
    LET \* the regular expression matches a text that opens and closes with a fence
        fenced == raw.open # <<>> /\ raw.close
        \* a fence without its partner stays in the text
        loneFence == ~fenced /\ (raw.open # <<>> \/ raw.close)
        payloadBraces == raw.payload.raw = "json" /\ raw.payload.v.t = "object"
        firstInProse == "{" \in Range(raw.before)
        lastInProse == "}" \in Range(raw.after)
    IN  IF payloadBraces
        THEN \* slice(firstBrace, lastBrace + 1)
             IF firstInProse \/ lastInProse THEN InvalidText ELSE raw.payload
        ELSE IF firstInProse /\ lastInProse
        THEN InvalidText
        ELSE \* withoutFence as it is
             IF raw.before = <<>> /\ raw.after = <<>> /\ ~loneFence
             THEN TrimText(raw.payload)
             ELSE InvalidText

\* a parseModelResult that carries no optional field
WithOptionalFields_None(partial, root) == partial

\* parseModelResult: the optional fields are added to the result
WithOptionalFields(partial, root) ==
    LET anchorsUsed == IF Len(asStringArray(Get(root, "anchors_used"))) > 0
                       THEN asStringArray(Get(root, "anchors_used"))
                       ELSE asStringArray(Get(root, "anchorsUsed"))
        mismatches == IF Get(root, "mismatches").t = "array"
                      THEN Get(root, "mismatches").a ELSE <<>>
        structuralMatch == IF TypeOf(Get(root, "structural_match")) = "boolean"
                           THEN Get(root, "structural_match")
                           ELSE IF TypeOf(Get(root, "structuralMatch")) = "boolean"
                           THEN Get(root, "structuralMatch")
                           ELSE Null
        withAnchors == IF Len(anchorsUsed) > 0
                       THEN With(partial, "anchorsUsed", Arr(anchorsUsed)) ELSE partial
        withMismatches == IF Len(mismatches) > 0
                          THEN With(withAnchors, "mismatches", Arr(mismatches)) ELSE withAnchors
    IN  IF structuralMatch # Null
        THEN With(withMismatches, "structuralMatch", structuralMatch)
        ELSE withMismatches

\* parseModelResult(outputText): Return(ReviewResult) or Throw(ServiceError)
parseModelResult(outputText) ==
    LET cleaned == extractJsonPayload(outputText)
        parsed == JsonParse(cleaned)
        root == asObject(parsed.value)
        decisionValue == Or(asOptionalString(Get(root, "decision_type")),
                            asOptionalString(Get(root, "decisionType")))
        confidence == asNumber(Get(root, "confidence"))
        decisionType == decisionValue.s
        partial == [decisionType |-> decisionValue, confidence |-> confidence]
        reviewText == Or(asOptionalString(Get(root, "review_text")),
                         asOptionalString(Get(root, "reviewText")))
        silenceReason == Or(asOptionalString(Get(root, "silence_reason")),
                         Or(asOptionalString(Get(root, "silenceReason")),
                            asOptionalString(Get(root, "reason"))))
        conflictExplanation == Or(asOptionalString(Get(root, "conflict_explanation")),
                                  asOptionalString(Get(root, "conflictExplanation")))
        lightQuestion == Or(asOptionalString(Get(root, "light_question")),
                            asOptionalString(Get(root, "lightQuestion")))
        Fail(message) == Throw(ServiceError(502, message))
    IN  IF ~parsed.ok THEN Fail(<<"Invalid", "model", "output", "JSON">>)
        ELSE IF ~Truthy(root) THEN Fail(<<"Invalid", "model", "output", "shape">>)
        ELSE IF ~Truthy(decisionValue) \/ ~Includes(REVIEW_DECISIONS, decisionValue.s)
        THEN Fail(<<"Invalid", "decision_type", "in", "model", "output">>)
        ELSE IF confidence = Null
        THEN Fail(<<"confidence", "must", "be", "a", "number">>)
        ELSE IF decisionType = <<"SPEAK">>
        THEN IF ~Truthy(reviewText)
             THEN Fail(<<"review_text", "is", "required", "for", "SPEAK">>)
             ELSE IF wordCount(reviewText.s) < MinReviewWords
             THEN Fail(<<"review_text", "must", "be", "at", "least", "500", "words",
                         "for", "SPEAK">>)
             ELSE Return(Obj(WithOptionalFields(With(partial, "reviewText", reviewText), root)))
        ELSE IF decisionType = <<"SILENCE">>
        THEN IF ~Truthy(silenceReason)
             THEN Fail(<<"silence_reason", "is", "required", "for", "SILENCE">>)
             ELSE Return(Obj(WithOptionalFields(With(partial, "silenceReason", silenceReason), root)))
        ELSE IF decisionType = <<"EXPLAIN_CONFLICT">>
        THEN IF ~Truthy(conflictExplanation)
             THEN Fail(<<"conflict_explanation", "is", "required", "for", "EXPLAIN_CONFLICT">>)
             ELSE Return(Obj(WithOptionalFields(
                         With(partial, "conflictExplanation", conflictExplanation), root)))
        ELSE IF ~Truthy(lightQuestion)
             THEN Fail(<<"light_question", "is", "required", "for", "ASK_LIGHT_QUESTION">>)
             ELSE Return(Obj(WithOptionalFields(With(partial, "lightQuestion", lightQuestion), root)))

\* generateReview: what it returns for a parsed decision
ReviewSuccess(parsed) == [statusCode |-> 200, errors |-> <<>>, data |-> parsed]

\* generateReview: the catch block
ReviewFailure(error) ==
    IF error.class = "ServiceError"
    THEN [statusCode |-> error.statusCode, errors |-> <<error.publicMessage>>, data |-> Null]
    ELSE [statusCode |-> 500,
          errors |-> <<<<"Unexpected", "error", "while", "generating", "review">>>>,
          data |-> Null]

(***************************************************************************)
(* Model outputs                                                           *)
(***************************************************************************)
\* a text of n words with one blank between two words
Words(n) == [i \in 1..(2 * n - 1) |-> IF i % 2 = 1 THEN "w" ELSE " "]

\* objects made of the fields parseModelResult reads; Undefined: no such field
DecisionObjects ==
    { BodyOf(f) : f \in
        [decision_type : { Undefined, Str(<<"SPEAK">>), Str(<<"SILENCE">>),
                           Str(<<"EXPLAIN_CONFLICT">>), Str(<<"ASK_LIGHT_QUESTION">>),
                           Str(<<"MAYBE">>), Str(<<"speak">>), Str(<<" ", "SPEAK", " ">>),
                           Str(<<>>), Num(1) },
         decisionType : { Undefined, Str(<<"SILENCE">>), Str(<<"MAYBE">>) },
         confidence : { Undefined, Num(1), Str(<<"0", ".", "5", "8">>) },
         review_text : { Undefined, Str(<<" ">>), Str(Words(MinReviewWords - 1)),
                         Str(Words(MinReviewWords)) },
         silence_reason : { Undefined, Str(<<"quiet">>) },
         reason : { Undefined, Str(<<"gate">>) },
         conflict_explanation : { Undefined, Str(<<" ">>), Str(<<"conflict">>) },
         light_question : { Undefined, Num(0), Str(<<" ", "why", "?">>) }] }

\* a decision every field of which is well-formed
AskLightQuestion ==
    Obj([decision_type |-> Str(<<"ASK_LIGHT_QUESTION">>), confidence |-> Num(1),
         light_question |-> Str(<<"why", "?">>)])

\* what a model may write for confidence: numbers in and out of [0, 1], a
\* number too large for a double (1e999 parses to Infinity), numerals in
\* strings, strings that are no numerals, and values of other types
ConfidenceValues ==
    { Undefined, Null, Bool(TRUE), Arr(<<Num(1)>>),
      Num(0), Num(1), Num(2), Num(-1), Frac(29, 50), Infinity,
      Str(<<"0", ".", "5", "8">>), Str(<<" ", "2", " ">>), Str(<<"-", "1">>),
      Str(<<"1", ".", "0">>), Str(<<"-", ".", "5">>),
      Str(<<>>), Str(<<" ">>), Str(<<"high">>), Str(<<"1", " ", "2">>),
      Str(<<"1", ".", "2", ".", "3">>), Str(<<".">>), Str(<<"-">>),
      Str(<<"Infinity">>), Str(<<"-", "Infinity">>), Str(<<"NaN">>) }

\* decisions that are well-formed but for their confidence
ConfidenceObjects ==
    { BodyOf(f) : f \in
        [decision_type : { Str(<<"SILENCE">>), Str(<<"ASK_LIGHT_QUESTION">>) },
         confidence : ConfidenceValues,
         reason : { Str(<<"gate">>) },
         light_question : { Str(<<"why", "?">>) }] }

\* a decision that is well-formed, and one of no decision type
QuietDecision ==
    Obj([decision_type |-> Str(<<"SILENCE">>), confidence |-> Frac(1, 2),
         silence_reason |-> Str(<<"quiet">>)])
MaybeDecision ==
    Obj([decision_type |-> Str(<<"MAYBE">>), confidence |-> Num(1)])

\* decisions and other JSON values inside fences and prose: a fence with and
\* without a language, an opening fence without a closing one and the
\* reverse, prose with and without braces
WrappedOutputs ==
    { ModelText(open, before, JsonText(v), after, close) :
        open \in { <<>>, <<"FENCE">>, <<"FENCE", "json">> },
        before \in { <<>>, <<"Sure", ":">>, <<"a", "}", "b">>, <<"like", "{", "this", "}", ":">> },
        after \in { <<>>, <<"Done", ".">>, <<"{", "x">>, <<"(", "see", "}", ")">> },
        close \in BOOLEAN,
        v \in { AskLightQuestion, QuietDecision, MaybeDecision, Num(1) } }

\* decisions that differ in their optional fields: well-typed, empty, of a
\* wrong type, lists with blank and padded strings and with items that are
\* no strings
OptionalFieldObjects ==
    { BodyOf(f) : f \in
        [decision_type : { Str(<<"SILENCE">>) },
         confidence : { Num(1), Undefined },
         reason : { Str(<<"gate">>) },
         anchors_used : { Undefined, Null, Str(<<"a">>), Num(1), EmptyObj, Arr(<<>>),
                          Arr(<<Str(<<"a">>), Str(<<"b">>)>>),
                          Arr(<<Str(<<" ", "b", " ">>), Num(1), Str(<<" ">>)>>),
                          Arr(<<Str(<<" ">>)>>), Arr(<<Num(1)>>) },
         anchorsUsed : { Undefined, Arr(<<Str(<<"c">>)>>) },
         mismatches : { Undefined, Null, Str(<<"genre">>), Bool(TRUE), Arr(<<>>),
                        Arr(<<Obj([field |-> Str(<<"genre">>)])>>), Arr(<<Num(1), Null>>) },
         structural_match : { Undefined, Null, Bool(TRUE), Bool(FALSE), Str(<<"true">>), Num(1) },
         structuralMatch : { Undefined, Bool(FALSE) }] }

ModelOutputs ==
    { Bare(v) : v \in DecisionObjects \cup ConfidenceObjects \cup OptionalFieldObjects
                       \cup { Null, Num(1), Arr(<<>>) } }
    \cup WrappedOutputs
    \cup { ModelText(<<"FENCE", "json">>, <<>>, JsonText(AskLightQuestion), <<>>, TRUE),
           ModelText(<<>>, <<"Sure", ":">>, JsonText(AskLightQuestion), <<>>, FALSE),
           ModelText(<<>>, <<>>, ProseText(<<"I", " ", "cannot">>), <<>>, FALSE) }

ReviewInit ==
    /\ env = EmptyEnv
    /\ upstream = [a \in Adapters |-> [kind |-> "unknown"]]
    /\ RouterIdle
    /\ TranslationIdle
    /\ TwoCallsIdle
    /\ NormalizerIdle
    /\ modelOutput \in ModelOutputs
    /\ generatedReviews = <<>>
    /\ reviewResult = NoResult
    /\ ServiceIdle

\* generateReview from the return of callLlmRouter on: parseModelResult,
\* persistGeneratedReview, return; or the catch block
ModelAnswered ==
    /\ reviewResult = NoResult
    /\ LET parsed == parseModelResult(modelOutput)
       IN  IF parsed.ok
           THEN /\ generatedReviews' = Append(generatedReviews,
                       [promptVersion |-> PROMPT_VERSION, result |-> parsed.value])
                /\ reviewResult' = ReviewSuccess(parsed.value)
           ELSE /\ UNCHANGED generatedReviews
                /\ reviewResult' = ReviewFailure(parsed.error)
    /\ UNCHANGED <<env, upstream, routerVars, translationVars, twoCallVars, normalizerVars,
                   modelOutput, serviceVars, dtoVars>>

ReviewSpec == ReviewInit /\ [][ModelAnswered]_vars

(***************************************************************************)
(* Properties of parseModelResult and of generateReview's use of it        *)
(***************************************************************************)
\* generateReview has returned
Reviewed == reviewResult # NoResult

\* the model wrote a JSON object, and the object it wrote
WroteObject ==
    /\ extractJsonPayload(modelOutput).raw = "json"
    /\ extractJsonPayload(modelOutput).v.t = "object"
Root == extractJsonPayload(modelOutput).v

\* the four decision types
DecisionTypes == { <<"SPEAK">>, <<"SILENCE">>, <<"EXPLAIN_CONFLICT">>, <<"ASK_LIGHT_QUESTION">> }

\* v is one of the four decision types, as it is written
NamesDecision(v) == TypeOf(v) = "string" /\ v.s \in DecisionTypes

\* the 502 of an invalid decision type
InvalidDecisionResult ==
    [statusCode |-> 502,
     errors |-> <<<<"Invalid", "decision_type", "in", "model", "output">>>>,
     data |-> Null]

\* C18 as stated: an object whose decision_type and decisionType are missing
\* or not one of the four decision types makes generateReview return 502 with
\* the 'Invalid decision_type' error and data null.
C18_InvalidDecisionFails ==
    (Reviewed /\ WroteObject
              /\ ~NamesDecision(Get(Root, "decision_type"))
              /\ ~NamesDecision(Get(Root, "decisionType"))) =>
        reviewResult = InvalidDecisionResult

\* the decision value of the object: decision_type when it is a non-blank
\* string, the decisionType alias otherwise; white space around it is dropped
DecisionField ==
    IF NonBlankString(Get(Root, "decision_type"))
    THEN Get(Root, "decision_type") ELSE Get(Root, "decisionType")
ValidDecision == NonBlankString(DecisionField) /\ Trim(DecisionField.s) \in DecisionTypes
Decision == Trim(DecisionField.s)

\* C18, amended: an object whose decision value, with the white space around
\* it dropped, is missing or not one of the four decision types makes
\* generateReview return 502 with the 'Invalid decision_type' error and data
\* null, and nothing is persisted.
C18_InvalidTrimmedDecisionFails ==
    (Reviewed /\ WroteObject /\ ~ValidDecision) =>
        /\ reviewResult = InvalidDecisionResult
        /\ generatedReviews = <<>>

C18_Witness ==
    /\ Reviewed /\ WroteObject
    /\ Get(Root, "decision_type") = Str(<<"MAYBE">>)
    /\ Get(Root, "confidence") = Num(1)
    /\ NonBlankString(Get(Root, "light_question"))
    /\ reviewResult = InvalidDecisionResult

\* the fields of the model output that may hold the text of a decision type,
\* and the field of the result that carries it
SourceFields(d) ==
    CASE d = <<"SPEAK">> -> { "review_text", "reviewText" }
      [] d = <<"SILENCE">> -> { "silence_reason", "silenceReason", "reason" }
      [] d = <<"EXPLAIN_CONFLICT">> -> { "conflict_explanation", "conflictExplanation" }
      [] d = <<"ASK_LIGHT_QUESTION">> -> { "light_question", "lightQuestion" }
ResultField(d) ==
    CASE d = <<"SPEAK">> -> "reviewText"
      [] d = <<"SILENCE">> -> "silenceReason"
      [] d = <<"EXPLAIN_CONFLICT">> -> "conflictExplanation"
      [] d = <<"ASK_LIGHT_QUESTION">> -> "lightQuestion"
ResultTextFields == { "reviewText", "silenceReason", "conflictExplanation", "lightQuestion" }

\* the non-blank texts the object holds for decision type d, trimmed
TextsFor(d) ==
    { Trim(Get(Root, k).s) : k \in { x \in SourceFields(d) : NonBlankString(Get(Root, x)) } }

\* C19: for every decision type the text field of that type is required: when
\* it is absent or blank generateReview returns 502 with data null, and a
\* result that is returned carries the text of its own decision type, not
\* blank, and none of the text fields of the other three types.
C19_OwnTextFieldRequired ==
    (Reviewed /\ WroteObject /\ ValidDecision) =>
        /\ TextsFor(Decision) = {} =>
              /\ reviewResult.statusCode = 502
              /\ reviewResult.data = Null
        /\ reviewResult.statusCode = 200 =>
              LET data == reviewResult.data.f
              IN  /\ data.decisionType = Str(Decision)
                  /\ DOMAIN data \cap ResultTextFields = { ResultField(Decision) }
                  /\ data[ResultField(Decision)].t = "string"
                  /\ data[ResultField(Decision)].s \in TextsFor(Decision)

C19_Witness ==
    /\ Reviewed /\ WroteObject /\ ValidDecision
    /\ Decision = <<"SILENCE">>
    /\ NonBlankString(Get(Root, "review_text"))
    /\ NonBlankString(Get(Root, "conflict_explanation"))
    /\ NonBlankString(Get(Root, "light_question"))
    /\ reviewResult.statusCode = 200
    /\ DOMAIN reviewResult.data.f = { "decisionType", "confidence", "silenceReason" }

\* the number of words of a text: the ends of its runs of non-blank pieces
WordsOf(s) ==
    Cardinality({ i \in DOMAIN s : /\ s[i] \notin Whitespace
                                   /\ (i = Len(s) \/ s[i + 1] \in Whitespace) })

\* the review text of the object: review_text, or the reviewText alias
ReviewTextField ==
    IF NonBlankString(Get(Root, "review_text"))
    THEN Get(Root, "review_text") ELSE Get(Root, "reviewText")

\* C20: a SPEAK whose review text has fewer than 500 words makes generateReview
\* return 502 with data null; a SPEAK with 500 words or more and a numeric
\* confidence is accepted and returned with its review text.
C20_SpeakNeedsFiveHundredWords ==
    (Reviewed /\ WroteObject /\ ValidDecision /\ Decision = <<"SPEAK">>
              /\ NonBlankString(ReviewTextField)) =>
        /\ WordsOf(ReviewTextField.s) < 500 =>
              /\ reviewResult.statusCode = 502
              /\ reviewResult.data = Null
              /\ generatedReviews = <<>>
        /\ (WordsOf(ReviewTextField.s) >= 500 /\ asNumber(Get(Root, "confidence")) # Null) =>
              /\ reviewResult.statusCode = 200
              /\ reviewResult.data.f.reviewText = Str(Trim(ReviewTextField.s))
              /\ Len(generatedReviews) = 1

C20_Witness ==
    /\ Reviewed /\ WroteObject /\ ValidDecision
    /\ Decision = <<"SPEAK">>
    /\ NonBlankString(ReviewTextField)
    /\ WordsOf(ReviewTextField.s) = 500
    /\ reviewResult.statusCode = 200
    /\ WordsOf(reviewResult.data.f.reviewText.s) = 500

\* the confidence the object holds, and what it is
Confidence == Get(Root, "confidence")
FiniteNumber(v) == TypeOf(v) = "number" /\ IsFinite(v)
\* a string that, trimmed, is a numeral: a sign or none, digits with one
\* decimal point or none, and one digit at least
Numeral(v) ==
    /\ TypeOf(v) = "string"
    /\ Trim(v.s) # <<>>
    /\ LET unsigned == IF Head(Trim(v.s)) = "-" THEN Tail(Trim(v.s)) ELSE Trim(v.s)
       IN  /\ \A i \in DOMAIN unsigned : unsigned[i] \in Digits \cup { "." }
           /\ Cardinality({ i \in DOMAIN unsigned : unsigned[i] = "." }) <= 1
           /\ \E i \in DOMAIN unsigned : unsigned[i] \in Digits

\* the 502 of a confidence that is no number
ConfidenceResult ==
    [statusCode |-> 502,
     errors |-> <<<<"confidence", "must", "be", "a", "number">>>>,
     data |-> Null]

\* C21: a decision of a valid type is returned only with a numeric confidence:
\* a finite number is kept as it is, whatever its range; a numeral in a string
\* is coerced to its number ("0.58" gives 0.58); a missing, blank, non-numeric
\* or non-finite confidence makes generateReview return 502 'confidence must
\* be a number' with data null.
C21_ConfidenceNumeric ==
    (Reviewed /\ WroteObject /\ ValidDecision) =>
        /\ (~FiniteNumber(Confidence) /\ ~Numeral(Confidence)) =>
              reviewResult = ConfidenceResult
        /\ (FiniteNumber(Confidence) \/ Numeral(Confidence)) =>
              reviewResult # ConfidenceResult
        /\ reviewResult.statusCode = 200 =>
              /\ FiniteNumber(Confidence) =>
                    reviewResult.data.f.confidence = Confidence
              /\ Numeral(Confidence) =>
                    reviewResult.data.f.confidence = NumberOf(Trim(Confidence.s))
              /\ Confidence = Str(<<"0", ".", "5", "8">>) =>
                    reviewResult.data.f.confidence = Frac(29, 50)
              /\ Confidence = Str(<<" ", "2", " ">>) =>
                    reviewResult.data.f.confidence = Num(2)

\* a confidence above 1 written in a string is returned as the number 2
C21_Witness ==
    /\ Reviewed /\ WroteObject /\ ValidDecision
    /\ Confidence = Str(<<" ", "2", " ">>)
    /\ reviewResult.statusCode = 200
    /\ reviewResult.data.f.confidence = Num(2)

\* what generateReview returns when the model writes text
OutcomeOf(text) ==
    LET parsed == parseModelResult(text)
    IN  IF parsed.ok THEN ReviewSuccess(parsed.value) ELSE ReviewFailure(parsed.error)

\* the model wrote a JSON object, perhaps inside a fence or prose
WrappedObject ==
    /\ modelOutput.payload.raw = "json"
    /\ modelOutput.payload.v.t = "object"
Wrapped ==
    \/ modelOutput.open # <<>> \/ modelOutput.close
    \/ modelOutput.before # <<>> \/ modelOutput.after # <<>>

\* C22 as stated: a JSON object inside a code fence or inside prose has the
\* outcome of the bare JSON object.
C22_WrappingKeepsOutcome ==
    (Reviewed /\ WrappedObject) =>
        reviewResult = OutcomeOf(Bare(modelOutput.payload.v))

\* the prose around the object has no opening brace before the object and no
\* closing brace after it
ProseWithoutBrace ==
    /\ "{" \notin Range(modelOutput.before)
    /\ "}" \notin Range(modelOutput.after)

\* C22, amended: a JSON object inside a code fence (opened, closed or both) or
\* inside prose that has no opening brace before the object and no closing
\* brace after it has the outcome of the bare JSON object: the same result is
\* returned and the same record persisted.
C22_WrappingWithoutBraceKeepsOutcome ==
    (Reviewed /\ WrappedObject /\ ProseWithoutBrace) =>
        /\ reviewResult = OutcomeOf(Bare(modelOutput.payload.v))
        /\ (modelOutput.payload.v = AskLightQuestion) =>
              /\ reviewResult.statusCode = 200
              /\ reviewResult.data.f.decisionType = Str(<<"ASK_LIGHT_QUESTION">>)
              /\ Len(generatedReviews) = 1

\* a decision in a fence with prose on both sides of the object
C22_Witness ==
    /\ Reviewed /\ WrappedObject /\ ProseWithoutBrace
    /\ modelOutput.open = <<"FENCE", "json">> /\ modelOutput.close
    /\ modelOutput.before = <<"Sure", ":">>
    /\ modelOutput.after = <<"Done", ".">>
    /\ modelOutput.payload.v = QuietDecision
    /\ reviewResult.statusCode = 200
    /\ reviewResult.data.f.silenceReason = Str(<<"quiet">>)

\* the optional fields of a model output and of a result
OptionalSourceFields ==
    { "anchors_used", "anchorsUsed", "mismatches", "structural_match", "structuralMatch" }
OptionalResultFields == { "anchorsUsed", "mismatches", "structuralMatch" }

\* the object without its optional fields
Required(root) == Obj([k \in DOMAIN root.f \ OptionalSourceFields |-> root.f[k]])

\* the model wrote an object with an optional field
WroteOptionalField == WroteObject /\ DOMAIN Root.f \cap OptionalSourceFields # {}

\* a non-empty list, a non-empty list of strings
NonEmptyList(v) == v.t = "array" /\ Len(v.a) > 0
StringList(v) == NonEmptyList(v) /\ \A i \in DOMAIN v.a : TypeOf(v.a[i]) = "string"

\* the optional fields leave the outcome and the rest of the decision as they
\* are without them
RestUnchanged ==
    LET without == OutcomeOf(Bare(Required(Root)))
    IN  /\ reviewResult.statusCode = without.statusCode
        /\ reviewResult.errors = without.errors
        /\ reviewResult.statusCode = 200 =>
              /\ DOMAIN reviewResult.data.f \ OptionalResultFields = DOMAIN without.data.f
              /\ \A k \in DOMAIN without.data.f : reviewResult.data.f[k] = without.data.f[k]
        /\ reviewResult.statusCode # 200 => reviewResult.data = Null

\* mismatches and structural_match: carried when well-typed, dropped otherwise
CarriedAsWritten ==
    LET data == reviewResult.data.f
    IN  /\ IF NonEmptyList(Get(Root, "mismatches"))
           THEN "mismatches" \in DOMAIN data /\ data.mismatches = Get(Root, "mismatches")
           ELSE "mismatches" \notin DOMAIN data
        /\ IF TypeOf(Get(Root, "structural_match")) = "boolean"
           THEN /\ "structuralMatch" \in DOMAIN data
                /\ data.structuralMatch = Get(Root, "structural_match")
           ELSE IF TypeOf(Get(Root, "structuralMatch")) = "boolean"
           THEN /\ "structuralMatch" \in DOMAIN data
                /\ data.structuralMatch = Get(Root, "structuralMatch")
           ELSE "structuralMatch" \notin DOMAIN data

\* C28 as stated: the optional fields never make the parse fail and leave the
\* rest of the decision unchanged; a non-empty list of strings in anchors_used,
\* a non-empty array in mismatches and a boolean in structural_match are
\* carried into the result, and a value of a wrong type is dropped.
C28_OptionalFieldsCarried ==
    (Reviewed /\ WroteOptionalField) =>
        /\ RestUnchanged
        /\ reviewResult.statusCode = 200 =>
              /\ CarriedAsWritten
              /\ StringList(Get(Root, "anchors_used")) =>
                    /\ "anchorsUsed" \in DOMAIN reviewResult.data.f
                    /\ reviewResult.data.f.anchorsUsed = Get(Root, "anchors_used")
              /\ (Get(Root, "anchors_used").t # "array" /\ Get(Root, "anchorsUsed").t # "array") =>
                    "anchorsUsed" \notin DOMAIN reviewResult.data.f

\* the non-blank strings of a list, without the white space around them
RECURSIVE NonBlankStrings(_)
NonBlankStrings(list) ==
    IF list = <<>> THEN <<>>
    ELSE IF NonBlankString(Head(list))
    THEN <<Str(Trim(Head(list).s))>> \o NonBlankStrings(Tail(list))
    ELSE NonBlankStrings(Tail(list))

\* the anchors of the object: those of anchors_used when it is a list with a
\* non-blank string, those of the anchorsUsed alias otherwise
Anchors ==
    LET OfList(v) == IF v.t = "array" THEN NonBlankStrings(v.a) ELSE <<>>
    IN  IF OfList(Get(Root, "anchors_used")) # <<>>
        THEN OfList(Get(Root, "anchors_used")) ELSE OfList(Get(Root, "anchorsUsed"))

\* C28, amended: the optional fields never make the parse fail and leave the
\* rest of the decision unchanged; a non-empty array in mismatches and a
\* boolean in structural_match are carried as written; of anchors_used the
\* non-blank strings are carried, trimmed, and the field is dropped when the
\* list has none; a value of a wrong type is dropped.
C28_OptionalFieldsCarriedTrimmed ==
    (Reviewed /\ WroteOptionalField) =>
        /\ RestUnchanged
        /\ reviewResult.statusCode = 200 =>
              /\ CarriedAsWritten
              /\ IF Anchors # <<>>
                 THEN /\ "anchorsUsed" \in DOMAIN reviewResult.data.f
                      /\ reviewResult.data.f.anchorsUsed = Arr(Anchors)
                 ELSE "anchorsUsed" \notin DOMAIN reviewResult.data.f

\* anchors and a boolean are carried, mismatches of a wrong type are dropped
C28_Witness ==
    /\ Reviewed /\ WroteOptionalField
    /\ Get(Root, "anchors_used") = Arr(<<Str(<<"a">>), Str(<<"b">>)>>)
    /\ Get(Root, "mismatches") = Str(<<"genre">>)
    /\ Get(Root, "structural_match") = Bool(FALSE)
    /\ reviewResult.statusCode = 200
    /\ DOMAIN reviewResult.data.f =
          { "decisionType", "confidence", "silenceReason", "anchorsUsed", "structuralMatch" }
    /\ reviewResult.data.f.structuralMatch = Bool(FALSE)

(***************************************************************************)
(* GenerateReviewService.generateReview: the store file, the review gate,  *)
(* the title lookup, the cache and the call of the llmRouter.              *)
(*                                                                         *)
(* The store file holds the review gates by key and the rows of generated  *)
(* reviews.  User keys, spoiler modes and trace ids are strings the        *)
(* service only compares, a title id is a sequence of pieces as every text *)
(* that is trimmed; the id and the creation time of a row are left out, as *)
(* is the updatedAt of a gate.                                             *)
(***************************************************************************)
\* the names every object literal inherits from Object.prototype
ObjectPrototypeNames == { "constructor", "toString", "valueOf", "hasOwnProperty", "__proto__" }

\* what an inherited name gives: a function or an object, with no property
\* the service reads
Inherited == [t |-> "function"]

\* gates[key] for an object literal gates
Property(gates, key) ==
    IF key \in DOMAIN gates THEN gates[key]
    ELSE IF key \in ObjectPrototypeNames THEN Inherited
    ELSE Undefined

\* loadStore: the gates that are objects with a boolean canSpeak
normalizeGates(reviewGates) ==
    [key \in { k \in DOMAIN reviewGates :
                  /\ Truthy(asObject(reviewGates[k]))
                  /\ TypeOf(Get(reviewGates[k], "canSpeak")) = "boolean" } |->
        Obj([canSpeak |-> Get(reviewGates[key], "canSpeak"),
             reason |-> Coalesce(asOptionalString(Get(reviewGates[key], "reason")), Null)])]

\* normalizeReviewResult(input)
normalizeReviewResult(input) ==
    LET root == asObject(input)
        decisionType == asOptionalString(Get(root, "decisionType"))
        confidence == asNumber(Get(root, "confidence"))
        out == [decisionType |-> decisionType, confidence |-> confidence]
        Text(partial, k) == IF Truthy(asOptionalString(Get(root, k)))
                            THEN With(partial, k, asOptionalString(Get(root, k))) ELSE partial
        texts == Text(Text(Text(Text(out, "reviewText"), "silenceReason"),
                           "conflictExplanation"), "lightQuestion")
        anchors == IF Len(asStringArray(Get(root, "anchorsUsed"))) > 0
                   THEN With(texts, "anchorsUsed", Arr(asStringArray(Get(root, "anchorsUsed"))))
                   ELSE texts
        mismatches == IF Get(root, "mismatches").t = "array" /\ Len(Get(root, "mismatches").a) > 0
                      THEN With(anchors, "mismatches", Get(root, "mismatches")) ELSE anchors
    IN  IF ~Truthy(root) THEN Null
        ELSE IF ~Truthy(decisionType) \/ confidence = Null THEN Null
        ELSE IF ~Includes(REVIEW_DECISIONS, decisionType.s) THEN Null
        ELSE IF TypeOf(Get(root, "structuralMatch")) = "boolean"
        THEN Obj(With(mismatches, "structuralMatch", Get(root, "structuralMatch")))
        ELSE Obj(mismatches)

\* normalizeGeneratedReview(item): the row, or Null
normalizeGeneratedReview(row) ==
    LET normalized == normalizeReviewResult(row.result)
    IN  IF row.userKey = "" \/ Trim(row.titleId) = <<>> \/ row.traceId = "" \/ normalized = Null
        THEN Null
        ELSE IF row.spoilerMode \notin { "spoiler", "non-spoiler" } THEN Null
        ELSE [userKey |-> row.userKey, titleId |-> Trim(row.titleId),
              spoilerMode |-> row.spoilerMode,
              promptVersion |-> Or(asOptionalString(row.promptVersion), Str(<<"legacy-v1">>)),
              provider |-> IF Truthy(asOptionalString(row.provider))
                              /\ ToLowerCase(asOptionalString(row.provider).s) \in { openai, deepseek }
                           THEN Str(ToLowerCase(asOptionalString(row.provider).s)) ELSE Null,
              traceId |-> row.traceId,
              result |-> normalized]

\* loadStore: the store read from the file
loadStore(file) ==
    LET rows == [i \in DOMAIN file.generatedReviews |->
                    normalizeGeneratedReview(file.generatedReviews[i])]
    IN  [reviewGates |-> normalizeGates(file.reviewGates),
         generatedReviews |-> SelectSeq(rows, LAMBDA row : row # Null)]

\* resolveGate(store, userKey, inputGate): Return(gate) or Throw(ServiceError)
resolveGate(store, userKey, inputGate) ==
    LET serverGate == Coalesce(Property(store.reviewGates, userKey),
                               Property(store.reviewGates, "global"))
    IN  IF Truthy(serverGate)
        THEN Return([canSpeak |-> Truthy(Get(serverGate, "canSpeak")),
                     reason |-> Coalesce(asOptionalString(Get(serverGate, "reason")), Null)])
        ELSE IF ~Truthy(inputGate)
        THEN Throw(ServiceError(400, <<"gate_state.can_speak", "must", "be", "provided", "when",
                                       "no", "server", "gate", "is", "configured">>))
        ELSE Return([canSpeak |-> inputGate.f.canSpeak.b, reason |-> inputGate.f.reason])

\* readJsonSafe of this service: the parsed body, or null
reviewReadJsonSafe(response) ==
    IF JsonParse(response.text).ok THEN JsonParse(response.text).value ELSE Null

\* readStatusCode(payload, fallback)
readStatusCode(payload, fallback) ==
    IF TypeOf(Get(payload, "statusCode")) = "number" /\ IsFinite(Get(payload, "statusCode"))
    THEN Get(payload, "statusCode").n ELSE fallback

\* loadTitleEvidence from the answer of titleDetail on: Return(title id) or
\* Throw(ServiceError)
loadTitleEvidence(titleId, answer) ==
    LET payload == reviewReadJsonSafe(answer)
        statusCode == readStatusCode(payload, answer.status)
        info == asObject(Get(payload, "info"))
        title == asOptionalString(Get(info, "title"))
        imdbId == asOptionalString(Get(info, "imdbId"))
    IN  IF answer.kind # "response"
        THEN Throw(ServiceError(502, <<"Failed", "to", "resolve", "title", "information">>))
        ELSE IF statusCode >= 500
        THEN Throw(ServiceError(502, <<"Failed", "to", "resolve", "title", "information">>))
        ELSE IF statusCode >= 400 THEN Throw(ServiceError(404, <<"Title", "not", "found">>))
        ELSE IF ~Truthy(title) THEN Throw(ServiceError(404, <<"Title", "not", "found">>))
        ELSE Return(IF Truthy(imdbId) THEN imdbId.s ELSE titleId)

\* a findCachedReview that serves the first row that matches, SILENCE included
findCachedReview_Oldest(store, userKey, titleId, spoilerMode) ==
    LET matching == { i \in DOMAIN store.generatedReviews :
                        LET row == store.generatedReviews[i]
                        IN  /\ row.userKey = userKey
                            /\ row.titleId = titleId
                            /\ row.spoilerMode = spoilerMode
                            /\ row.promptVersion = Str(PROMPT_VERSION) }
    IN  IF matching = {} THEN Null
        ELSE store.generatedReviews[CHOOSE i \in matching : \A j \in matching : i <= j].result

\* findCachedReview(store, userKey, titleId, spoilerMode): the result of the
\* last row that matches, or null
findCachedReview(store, userKey, titleId, spoilerMode) ==
    LET matching == { i \in DOMAIN store.generatedReviews :
                        LET row == store.generatedReviews[i]
                        IN  /\ row.userKey = userKey
                            /\ row.titleId = titleId
                            /\ row.spoilerMode = spoilerMode
                            /\ row.promptVersion = Str(PROMPT_VERSION)
                            /\ row.result.f.decisionType # Str(<<"SILENCE">>) }
    IN  IF matching = {} THEN Null
        ELSE store.generatedReviews[CHOOSE i \in matching : \A j \in matching : i >= j].result

\* a string that holds the text of a model output
TextOf(text) == [t |-> "text", text |-> text]

\* callLlmRouter from the answer of the llmRouter on: Return(response) or
\* Throw(ServiceError).  The output text is a string: a blank string, or the
\* text of a model output
callLlmRouterResume(answer) ==
    LET parsed == reviewReadJsonSafe(answer)
        errors == IF Get(parsed, "errors").t = "array"
                  THEN SelectSeq(Get(parsed, "errors").a, LAMBDA item : TypeOf(item) = "string")
                  ELSE <<>>
        Text(k) == IF Get(parsed, k).t = "text" THEN Get(parsed, k)
                   ELSE asOptionalString(Get(parsed, k))
        outputText == Or(Text("output_text"), Text("outputText"))
        providerRaw == IF Truthy(asOptionalString(Get(parsed, "provider")))
                       THEN ToLowerCase(asOptionalString(Get(parsed, "provider")).s) ELSE <<>>
    IN  IF answer.kind # "response"
        THEN Throw(ServiceError(502, <<"llmRouter", "request", "failed">>))
        ELSE IF ~ResponseOk(answer)
        THEN Throw(ServiceError(502,
                     IF Len(errors) > 0 /\ Truthy(errors[1]) THEN errors[1].s
                     ELSE <<"llmRouter", "failed", "with", "status", ToString(answer.status)>>))
        ELSE IF ~Truthy(outputText)
        THEN Throw(ServiceError(502, <<"llmRouter", "returned", "no", "output_text">>))
        ELSE Return([provider |-> IF providerRaw \in { openai, deepseek }
                                  THEN Str(providerRaw) ELSE Null,
                     outputText |-> outputText.text])

(***************************************************************************)
(* generateReview, step by step.  A call reads the store file, resolves    *)
(* the gate, looks the title up when the request has no title text, serves *)
(* the SILENCE of a closed gate or a cached review, or asks the llmRouter  *)
(* and parses its output; the row it adds is written with the whole store  *)
(* it has read.                                                            *)
(***************************************************************************)
\* the call c goes on as the record next
Goes(c, next) == reviews' = [reviews EXCEPT ![c] = next]

\* the call returns
Returned(call, response) == [call EXCEPT !.pc = "done", !.result = response]

\* persistGeneratedReview up to the call of saveStore: the row is pushed to
\* the store the call has read
Persisting(call, titleId, provider, reviewed) ==
    LET row == [userKey |-> call.userKey, titleId |-> titleId,
                spoilerMode |-> call.input.spoilerMode,
                promptVersion |-> Str(PROMPT_VERSION),
                provider |-> provider, traceId |-> call.traceId, result |-> reviewed]
    IN  [call EXCEPT !.pc = "saveStore",
                     !.store.generatedReviews = Append(@, row),
                     !.saving = reviewed]

\* the request the call sends
Sent(c, to) == outbound' = Append(outbound, [call |-> c, to |-> to])

\* generateReview with the title resolved: TRUE when the llmRouter is called
AsksRouter(call, titleId) ==
    /\ call.gate.canSpeak
    /\ \/ call.input.forceRefresh
       \/ findCachedReview(call.store, call.userKey, titleId, call.input.spoilerMode) = Null

\* a generateReview that looks into the cache before it looks at the gate
TitleResolved_CacheFirst(call, titleId) ==
    LET titled == [call EXCEPT !.titleId = titleId]
        cached == findCachedReview(call.store, call.userKey, titleId, call.input.spoilerMode)
    IN  IF ~call.input.forceRefresh /\ cached # Null
        THEN Returned(titled, ReviewSuccess(cached))
        ELSE IF ~call.gate.canSpeak
        THEN Persisting(titled, titleId, Coalesce(call.input.provider, Null),
                        Obj([decisionType |-> Str(<<"SILENCE">>), confidence |-> Num(0),
                             silenceReason |-> Or(call.gate.reason,
                                                  Str(<<"Review", " ", "gate", " ", "disabled">>))]))
        ELSE [titled EXCEPT !.pc = "llmRouter"]

\* generateReview with the title resolved: the gate check, the cache check,
\* and the call of the llmRouter
TitleResolved(call, titleId) ==
    LET titled == [call EXCEPT !.titleId = titleId]
    IN  IF ~call.gate.canSpeak
        THEN Persisting(titled, titleId, Coalesce(call.input.provider, Null),
                        Obj([decisionType |-> Str(<<"SILENCE">>), confidence |-> Num(0),
                             silenceReason |-> Or(call.gate.reason,
                                                  Str(<<"Review", " ", "gate", " ", "disabled">>))]))
        ELSE IF ~AsksRouter(call, titleId)
        THEN Returned(titled, ReviewSuccess(findCachedReview(call.store, call.userKey, titleId,
                                                             call.input.spoilerMode)))
        ELSE [titled EXCEPT !.pc = "llmRouter"]

\* generateReview is called: readFile is awaited
GenerateReview(c, input, userKey, tid) ==
    /\ reviews[c].pc = "idle"
    /\ Goes(c, [pc |-> "loadStore", input |-> input, userKey |-> userKey, traceId |-> tid,
                raw |-> EmptyStore, store |-> EmptyStore, gate |-> [canSpeak |-> TRUE, reason |-> Null],
                titleId |-> <<>>, saving |-> Null, result |-> NoResult])
    /\ UNCHANGED <<env, upstream, routerVars, translationVars, twoCallVars, normalizerVars,
                   modelOutput, generatedReviews, reviewResult, dtoVars, storeFile, outbound>>

\* loadStore returns: resolveGate, resolveTitleEvidence up to its fetch or,
\* with a title text in the request, the gate check and the cache check
StoreLoaded(c) ==
    /\ reviews[c].pc = "loadStore"
    /\ \E store \in { loadStore(storeFile) } :
       \E gate \in { resolveGate(store, reviews[c].userKey, reviews[c].input.gateState) } :
       \E loaded \in { [reviews[c] EXCEPT !.raw = storeFile, !.store = store] } :
          IF ~gate.ok
          THEN Goes(c, Returned(loaded, ReviewFailure(gate.error))) /\ UNCHANGED outbound
          ELSE \E gated \in { [loaded EXCEPT !.gate = gate.value] } :
                  IF ~Truthy(Coalesce(gated.input.title.title, Str(<<>>)))
                  THEN Goes(c, [gated EXCEPT !.pc = "titleDetail"]) /\ Sent(c, "titleDetail")
                  ELSE /\ Goes(c, TitleResolved(gated, gated.input.title.titleId))
                       /\ IF AsksRouter(gated, gated.input.title.titleId)
                          THEN Sent(c, "llmRouter") ELSE UNCHANGED outbound
    /\ UNCHANGED <<env, upstream, routerVars, translationVars, twoCallVars, normalizerVars,
                   modelOutput, generatedReviews, reviewResult, dtoVars, storeFile>>

\* the fetch of titleDetail settles: loadTitleEvidence, then the gate check
\* and the cache check
TitleAnswered(c, answer) ==
    /\ reviews[c].pc = "titleDetail"
    /\ \E lookedUp \in { loadTitleEvidence(reviews[c].input.title.titleId, answer) } :
          IF ~lookedUp.ok
          THEN Goes(c, Returned(reviews[c], ReviewFailure(lookedUp.error))) /\ UNCHANGED outbound
          ELSE /\ Goes(c, TitleResolved(reviews[c], lookedUp.value))
               /\ IF AsksRouter(reviews[c], lookedUp.value)
                  THEN Sent(c, "llmRouter") ELSE UNCHANGED outbound
    /\ UNCHANGED <<env, upstream, routerVars, translationVars, twoCallVars, normalizerVars,
                   modelOutput, generatedReviews, reviewResult, dtoVars, storeFile>>

\* the fetch of the llmRouter settles: callLlmRouter, parseModelResult, and
\* persistGeneratedReview up to saveStore
RouterAnswered(c, answer) ==
    /\ reviews[c].pc = "llmRouter"
    /\ \E llmResponse \in { callLlmRouterResume(answer) } :
          IF ~llmResponse.ok
          THEN Goes(c, Returned(reviews[c], ReviewFailure(llmResponse.error)))
          ELSE \E parsed \in { parseModelResult(llmResponse.value.outputText) } :
                  IF ~parsed.ok
                  THEN Goes(c, Returned(reviews[c], ReviewFailure(parsed.error)))
                  ELSE Goes(c, Persisting(reviews[c], reviews[c].titleId,
                                  Coalesce(llmResponse.value.provider,
                                           Coalesce(reviews[c].input.provider, Null)),
                                  parsed.value))
    /\ UNCHANGED <<env, upstream, routerVars, translationVars, twoCallVars, normalizerVars,
                   modelOutput, generatedReviews, reviewResult, dtoVars, storeFile, outbound>>

\* saveStore: the temporary file is renamed to the store file, and
\* generateReview returns what it has persisted
StoreSaved(c) ==
    /\ reviews[c].pc = "saveStore"
    /\ storeFile' = reviews[c].store
    /\ Goes(c, Returned(reviews[c], ReviewSuccess(reviews[c].saving)))
    /\ UNCHANGED <<env, upstream, routerVars, translationVars, twoCallVars, normalizerVars,
                   modelOutput, generatedReviews, reviewResult, dtoVars, outbound>>

\* a saveStore that writes into the store file itself and fails after it
StoreSaveFails_FileWritten(c) ==
    /\ reviews[c].pc = "saveStore"
    /\ storeFile' = reviews[c].store
    /\ Goes(c, Returned(reviews[c], ReviewFailure(NativeError("Error", <<"ENOSPC">>))))
    /\ UNCHANGED <<env, upstream, routerVars, translationVars, twoCallVars, normalizerVars,
                   modelOutput, generatedReviews, reviewResult, dtoVars, outbound>>

\* saveStore: mkdir, writeFile or rename rejects, the store file stays
StoreSaveFails(c) ==
    /\ reviews[c].pc = "saveStore"
    /\ Goes(c, Returned(reviews[c], ReviewFailure(NativeError("Error", <<"EACCES">>))))
    /\ UNCHANGED <<env, upstream, routerVars, translationVars, twoCallVars, normalizerVars,
                   modelOutput, generatedReviews, reviewResult, dtoVars, storeFile, outbound>>

(***************************************************************************)
(* Store files, requests and answers                                       *)
(***************************************************************************)
tt1 == <<"tt0133093">>
tt2 == <<"tt0234215">>

\* a gate as it is written in the store file or sent in gate_state
GateOf(canSpeak, reason) == Obj([canSpeak |-> canSpeak, reason |-> reason])

\* the gates of a store file: none, a global gate, a gate of user u1, both,
\* a closed gate without a reason, and a gate that is no gate
StoredGates ==
    { <<>>,
      [global |-> GateOf(Bool(TRUE), Null)],
      [u1 |-> GateOf(Bool(FALSE), Str(<<"Need", " ", "more", " ", "ratings">>))],
      [u1 |-> GateOf(Bool(TRUE), Null), global |-> GateOf(Bool(FALSE), Str(<<"paused">>))],
      [global |-> GateOf(Bool(FALSE), Str(<<" ">>))],
      [u1 |-> GateOf(Str(<<"no">>), Null)] }

\* a row of the store file
RowOf(userKey, titleId, spoilerMode, promptVersion, tid, reviewed) ==
    [userKey |-> userKey, titleId |-> titleId, spoilerMode |-> spoilerMode,
     promptVersion |-> promptVersion, provider |-> Null, traceId |-> tid, result |-> reviewed]

\* results of earlier calls
Explained(text) ==
    Obj([decisionType |-> Str(<<"EXPLAIN_CONFLICT">>), confidence |-> Frac(1, 2),
         conflictExplanation |-> Str(<<text>>)])
Silenced ==
    Obj([decisionType |-> Str(<<"SILENCE">>), confidence |-> Num(0),
         silenceReason |-> Str(<<"paused">>)])

\* a row of user u1 for title tt1 without spoilers, of the prompt version
CachedRow(tid, reviewed) == RowOf("u1", tt1, "non-spoiler", Str(PROMPT_VERSION), tid, reviewed)

\* the rows of a store file: none; one or two that a request may be served
\* from; a SILENCE after or instead of one; rows of another prompt version
\* (a row without one is of version legacy-v1), user, title and spoiler mode
StoredRows ==
    { <<>>,
      <<CachedRow("t1", Explained("older"))>>,
      <<CachedRow("t1", Explained("older")), CachedRow("t2", Explained("newer"))>>,
      <<CachedRow("t1", Explained("older")), CachedRow("t2", Silenced)>>,
      <<CachedRow("t1", Silenced)>>,
      <<RowOf("u1", tt1, "non-spoiler", Undefined, "t1", Explained("legacy")),
        RowOf("u2", tt1, "non-spoiler", Str(PROMPT_VERSION), "t2", Explained("other")),
        RowOf("u1", tt2, "spoiler", Str(PROMPT_VERSION), "t3", Explained("spoiled"))>> }

StoreFiles ==
    { [reviewGates |-> gates, generatedReviews |-> rows] :
        gates \in StoredGates, rows \in StoredRows }

\* validated requests: with and without a title text, a spoiler mode, with
\* and without gate_state (open, closed with and without a reason)
ReviewInputs ==
    [title : { [titleId |-> tt1, title |-> Str(<<"The", " ", "Matrix">>)],
               [titleId |-> tt1, title |-> Undefined] },
     spoilerMode : { "spoiler", "non-spoiler" },
     gateState : { Undefined, GateOf(Bool(TRUE), Null), GateOf(Bool(FALSE), Null),
                   GateOf(Bool(FALSE), Str(<<"later">>)) },
     forceRefresh : BOOLEAN,
     provider : { Undefined, Str(deepseek) }]

\* the x-user-id header of a request, 'global' without one
UserKeys == { "u1", "global", "constructor" }

\* what titleDetail answers
TitleAnswers ==
    { [kind |-> "neterr"],
      Response(200, JsonText(Obj([statusCode |-> Num(200),
                                  info |-> Obj([imdbId |-> Str(tt2),
                                                title |-> Str(<<"The", " ", "Matrix">>)])])), Null),
      Response(200, JsonText(Obj([info |-> Obj([title |-> Str(<<"Matrix">>)])])), Null),
      Response(200, JsonText(Obj([info |-> Obj([title |-> Str(<<" ">>)])])), Null),
      Response(200, JsonText(Obj([statusCode |-> Num(404)])), Null),
      Response(500, EmptyText, Null) }

\* what the llmRouter answers
RouterAnswerOf(provider, text) ==
    Response(200, JsonText(BodyOf([provider |-> provider, output_text |-> text])), Null)
RouterAnswers ==
    { [kind |-> "neterr"],
      Response(502, JsonText(Obj([errors |-> Arr(<<Str(<<"PROVIDERS_UNAVAILABLE">>)>>)])), Null),
      Response(500, InvalidText, Null),
      RouterAnswerOf(Str(openai), Undefined),
      RouterAnswerOf(Str(openai), Str(<<" ">>)),
      RouterAnswerOf(Str(OpenAIMixedCase), TextOf(Bare(AskLightQuestion))),
      RouterAnswerOf(Undefined, TextOf(Bare(QuietDecision))),
      RouterAnswerOf(Undefined, TextOf(Bare(MaybeDecision))) }

GenInit ==
    /\ env = EmptyEnv
    /\ upstream = [a \in Adapters |-> [kind |-> "unknown"]]
    /\ RouterIdle
    /\ TranslationIdle
    /\ TwoCallsIdle
    /\ NormalizerIdle
    /\ modelOutput = Undefined
    /\ generatedReviews = <<>>
    /\ reviewResult = NoResult
    /\ storeFile \in StoreFiles
    /\ reviews = [c \in CallIds |-> IdleReview]
    /\ outbound = <<>>
    /\ DtoIdle

\* one call of generateReview
GenNext ==
    \/ \E input \in ReviewInputs, userKey \in UserKeys :
          GenerateReview("first", input, userKey, "trace-abc-123")
    \/ StoreLoaded("first")
    \/ \E answer \in TitleAnswers : TitleAnswered("first", answer)
    \/ \E answer \in RouterAnswers : RouterAnswered("first", answer)
    \/ StoreSaved("first")
    \/ StoreSaveFails("first")

GenSpec == GenInit /\ [][GenNext]_vars

(***************************************************************************)
(* Properties of generateReview                                            *)
(***************************************************************************)
\* the one call of GenSpec, the rows it has read and the rows of the file
TheCall == reviews["first"]
HasReturned == TheCall.pc = "done"
FileRows == storeFile.generatedReviews

\* the gate is resolved and closed; the title is resolved
GateResolved == TheCall.pc \notin { "idle", "loadStore" } /\ TheCall.result.statusCode # 400
GateClosed == GateResolved /\ ~TheCall.gate.canSpeak
Titled == TheCall.pc \notin { "idle", "loadStore" } /\ TheCall.titleId # <<>>

\* the requests the call has sent to the llmRouter and to titleDetail
SentTo(to) == Cardinality({ i \in DOMAIN outbound : outbound[i].to = to })

\* the SILENCE of a closed gate
GateSilence(reason) ==
    Obj([decisionType |-> Str(<<"SILENCE">>), confidence |-> Num(0), silenceReason |-> reason])

\* the rows of the file are the rows read and one row more, with this result
OneRowAdded(before, reviewed) ==
    /\ Len(FileRows) = Len(before) + 1
    /\ SubSeq(FileRows, 1, Len(before)) = before
    /\ FileRows[Len(FileRows)].result = reviewed
    /\ FileRows[Len(FileRows)].userKey = TheCall.userKey
    /\ FileRows[Len(FileRows)].titleId = TheCall.titleId
    /\ FileRows[Len(FileRows)].spoilerMode = TheCall.input.spoilerMode
    /\ FileRows[Len(FileRows)].promptVersion = Str(PROMPT_VERSION)

\* the rows the call has read, without the row it has pushed
RowsRead ==
    IF TheCall.saving = Null THEN TheCall.store.generatedReviews
    ELSE SubSeq(TheCall.store.generatedReviews, 1, Len(TheCall.store.generatedReviews) - 1)

ReasonOf(gate) ==
    IF gate.reason # Null THEN gate.reason ELSE Str(<<"Review", " ", "gate", " ", "disabled">>)

\* saveStore has failed
SaveFailed == TheCall.saving # Null /\ TheCall.result.statusCode = 500

NoGateAnywhere ==
    /\ TheCall.pc \notin { "idle", "loadStore" }
    /\ TheCall.userKey \notin DOMAIN TheCall.raw.reviewGates
    /\ "global" \notin DOMAIN TheCall.raw.reviewGates
    /\ TheCall.input.gateState = Undefined

\* C24: with no gate under the user key, no global gate and no gate_state the
\* call returns 400 with data null, has sent no request (no title lookup, no
\* llmRouter call) and has left the store file as it was.
C24_MissingGateIs400 ==
    (HasReturned /\ NoGateAnywhere) =>
        /\ TheCall.result.statusCode = 400
        /\ TheCall.result.data = Null
        /\ outbound = <<>>
        /\ storeFile = TheCall.raw

\* the gate is resolved and open
GateOpen == GateResolved /\ TheCall.gate.canSpeak

\* the rows read that are of the user key, the spoiler mode and the prompt
\* version of the call and of this title, and are no SILENCE
Servable(titleId) ==
    { i \in DOMAIN RowsRead :
        /\ RowsRead[i].userKey = TheCall.userKey
        /\ RowsRead[i].titleId = titleId
        /\ RowsRead[i].spoilerMode = TheCall.input.spoilerMode
        /\ RowsRead[i].promptVersion = Str(PROMPT_VERSION)
        /\ RowsRead[i].result.f.decisionType # Str(<<"SILENCE">>) }
Latest(rows) == CHOOSE i \in rows : \A j \in rows : j <= i

\* C25 as stated: with the gate open and forceRefresh false a call whose
\* store holds a review for its user key, title id, spoiler mode and prompt
\* version that is no SILENCE returns the latest such review, calls no
\* llmRouter and writes no row; with forceRefresh true the llmRouter is called.
C25_CacheServesLatest ==
    (HasReturned /\ GateOpen) =>
        LET rows == Servable(TheCall.input.title.titleId)
        IN  /\ (~TheCall.input.forceRefresh /\ rows # {}) =>
                  /\ TheCall.result = ReviewSuccess(RowsRead[Latest(rows)].result)
                  /\ SentTo("llmRouter") = 0
                  /\ storeFile = TheCall.raw
            /\ TheCall.input.forceRefresh => SentTo("llmRouter") = 1

\* C25, amended: with the gate open and the title resolved, a call without
\* forceRefresh whose store holds a review for its user key, the resolved
\* title id, its spoiler mode and the prompt version that is no SILENCE
\* returns the latest such review, calls no llmRouter and writes nothing; a
\* call with forceRefresh, or without such a review, calls the llmRouter once;
\* what is returned without a call of the llmRouter is no SILENCE.
C25_CacheServesLatestOnceTitled ==
    (GateOpen /\ Titled) =>
        LET rows == Servable(TheCall.titleId)
        IN  /\ (~TheCall.input.forceRefresh /\ rows # {}) =>
                  /\ HasReturned
                  /\ TheCall.result = ReviewSuccess(RowsRead[Latest(rows)].result)
                  /\ SentTo("llmRouter") = 0
                  /\ storeFile = TheCall.raw
            /\ (TheCall.input.forceRefresh \/ rows = {}) => SentTo("llmRouter") = 1
            /\ (HasReturned /\ SentTo("llmRouter") = 0) =>
                  TheCall.result.data.f.decisionType # Str(<<"SILENCE">>)

\* two reviews that may be served: the newer one is
C25_Witness ==
    /\ HasReturned /\ GateOpen /\ Titled
    /\ ~TheCall.input.forceRefresh
    /\ Cardinality(Servable(TheCall.titleId)) = 2
    /\ TheCall.result.statusCode = 200
    /\ TheCall.result.data.f.conflictExplanation = Str(<<"newer">>)
    /\ SentTo("llmRouter") = 0

\* why a call returns without a row: the gate is missing, the title lookup
\* fails, the llmRouter fails or answers a non-2xx status, the model output
\* is invalid, the store file cannot be written
FailureStatuses == { 400, 404, 500, 502 }

\* C29: a call that returns a status other than 200 has left the store file
\* as it was, and the data of a result is null exactly when its status is not
\* 200.
C29_FailureLeavesStore ==
    HasReturned =>
        /\ TheCall.result.statusCode # 200 =>
              /\ storeFile = TheCall.raw
              /\ TheCall.result.statusCode \in FailureStatuses
              /\ Len(TheCall.result.errors) = 1
        /\ TheCall.result.statusCode = 200 =>
              /\ TheCall.result.errors = <<>>
              /\ TheCall.saving # Null => OneRowAdded(RowsRead, TheCall.saving)
              /\ TheCall.saving = Null => storeFile = TheCall.raw
        /\ (TheCall.result.data = Null) <=> (TheCall.result.statusCode # 200)

\* an invalid model output after a title lookup: 502 and nothing is written
C29_Witness ==
    /\ HasReturned
    /\ outbound = <<[call |-> "first", to |-> "titleDetail"], [call |-> "first", to |-> "llmRouter"]>>
    /\ TheCall.result.statusCode = 502
    /\ TheCall.result.errors = <<<<"Invalid", "decision_type", "in", "model", "output">>>>
    /\ TheCall.result.data = Null
    /\ TheCall.raw.generatedReviews # <<>>
    /\ storeFile = TheCall.raw

(***************************************************************************)
(* Two calls of generateReview on one store file.  The steps of a call are *)
(* those of GenSpec; between two steps of one call, at its awaits, the     *)
(* other call may take steps.                                              *)
(***************************************************************************)
\* store files of two concurrent calls: empty, and with a row and a gate
SharedStoreFiles ==
    { EmptyStore,
      [reviewGates |-> [global |-> GateOf(Bool(TRUE), Null)],
       generatedReviews |-> <<CachedRow("t1", Explained("older"))>>] }

\* requests of two concurrent calls: every one carries a gate_state; a closed
\* gate persists a SILENCE, an open gate with forceRefresh asks the llmRouter
SharedInputs ==
    [title : { [titleId |-> tt1, title |-> Str(<<"The", " ", "Matrix">>)],
               [titleId |-> tt2, title |-> Undefined] },
     spoilerMode : { "non-spoiler" },
     gateState : { GateOf(Bool(TRUE), Null), GateOf(Bool(FALSE), Str(<<"later">>)) },
     forceRefresh : { TRUE },
     provider : { Undefined }]

SharedTitleAnswers ==
    { [kind |-> "neterr"],
      Response(200, JsonText(Obj([info |-> Obj([title |-> Str(<<"Matrix">>)])])), Null) }

SharedRouterAnswers ==
    { Response(500, InvalidText, Null),
      RouterAnswerOf(Str(openai), TextOf(Bare(AskLightQuestion))) }

ConcInit ==
    /\ env = EmptyEnv
    /\ upstream = [a \in Adapters |-> [kind |-> "unknown"]]
    /\ RouterIdle
    /\ TranslationIdle
    /\ TwoCallsIdle
    /\ NormalizerIdle
    /\ modelOutput = Undefined
    /\ generatedReviews = <<>>
    /\ reviewResult = NoResult
    /\ storeFile \in SharedStoreFiles
    /\ reviews = [c \in CallIds |-> IdleReview]
    /\ outbound = <<>>
    /\ DtoIdle

ConcNext ==
    \E c \in CallIds :
        \/ \E input \in SharedInputs, userKey \in { "u1", "u2" } :
              GenerateReview(c, input, userKey, CallTraceId(c))
        \/ StoreLoaded(c)
        \/ \E answer \in SharedTitleAnswers : TitleAnswered(c, answer)
        \/ \E answer \in SharedRouterAnswers : RouterAnswered(c, answer)
        \/ StoreSaved(c)
        \/ StoreSaveFails(c)

ConcSpec == ConcInit /\ [][ConcNext]_vars

\* the call has returned 200 with a row it has persisted
Persisted(c) ==
    /\ reviews[c].pc = "done"
    /\ reviews[c].result.statusCode = 200
    /\ reviews[c].saving # Null

\* the store file holds the row of the call, and every row the call has read
HoldsRowOf(c) ==
    \E i \in DOMAIN storeFile.generatedReviews :
        /\ storeFile.generatedReviews[i].traceId = reviews[c].traceId
        /\ storeFile.generatedReviews[i].result = reviews[c].saving
HoldsRowsReadBy(c) ==
    \A i \in DOMAIN reviews[c].store.generatedReviews :
        \E j \in DOMAIN storeFile.generatedReviews :
            storeFile.generatedReviews[j] = reviews[c].store.generatedReviews[i]

\* C30: when two calls have each persisted a row and returned, the store
\* file holds the rows of both and every row that was there before.
C30_NoRowLost ==
    (\A c \in CallIds : Persisted(c)) =>
        \A c \in CallIds : HoldsRowOf(c) /\ HoldsRowsReadBy(c)

(***************************************************************************)
(* validateGenerateReviewDto   src/src/generate-review/dto/generate-review.dto.ts *)
(*                                                                         *)
(* A validator returns what the code returns and the errors it pushed.     *)
(***************************************************************************)
spoiler == <<"s", "p", "o", "i", "l", "e", "r">>
SPOILER_MODES == << spoiler, <<"n", "o", "n", "-">> \o spoiler >>
REVIEW_PROVIDERS == << openai, deepseek >>

RECURSIVE pick(_, _)
\* pick(obj, keys): the value of the first key obj has as own property
pick(obj, keys) ==
    IF keys = <<>> THEN Undefined
    ELSE IF Head(keys) \in DOMAIN obj.f THEN obj.f[Head(keys)]
    ELSE pick(obj, Tail(keys))

\* asObject and asStringArray of the DTO file (478-493) are those of the service

\* asTrimmedString(value)
asTrimmedString(value) ==
    IF TypeOf(value) # "string" THEN Str(<<>>) ELSE Str(Trim(value.s))

\* asInteger(value)
asInteger(value) ==
    IF TypeOf(value) # "number" \/ ~IsFinite(value) THEN Null
    ELSE IF "d" \in DOMAIN value THEN Null
    ELSE value

\* nonNegativeInt(value)
nonNegativeInt(value) ==
    LET n == asInteger(value)
    IN  IF n = Null THEN Null ELSE IF n.n < 0 THEN Null ELSE n

\* asFiniteNumber(value)
asFiniteNumber(value) ==
    IF TypeOf(value) # "number" \/ ~IsFinite(value) THEN Null ELSE value

\* the errors pushed where the condition holds, in the order of the code
Pushed(checks) ==
    LET failed == SelectSeq(checks, LAMBDA check : check[1])
    IN  [i \in DOMAIN failed |-> failed[i][2]]

\* item && typeof item === 'object' && !Array.isArray(item)
IsPlainObject(item) == Truthy(item) /\ TypeOf(item) = "object" /\ item.t # "array"

\* validateTitle(body, errors)
validateTitle(body) ==
    LET titleObj == asObject(pick(body, <<"title">>))
        topLevelTitleIdRaw == pick(body, <<"titleId", "title_id">>)
        titleIdFromTitle == IF titleObj # Null THEN pick(titleObj, <<"titleId", "title_id">>)
                            ELSE Undefined
        titleIdRaw == Coalesce(titleIdFromTitle, topLevelTitleIdRaw)
        titleId == IF TypeOf(titleIdRaw) = "string" THEN Str(Trim(titleIdRaw.s)) ELSE Str(<<>>)
        given == IF titleObj # Null THEN titleObj ELSE EmptyObj
        yearRaw == pick(given, <<"year">>)
        runtimeRaw == pick(given, <<"runtimeMinutes", "runtime_minutes">>)
        genresRaw == pick(given, <<"genres">>)
        year == asInteger(yearRaw)
        runtimeMinutes == asInteger(runtimeRaw)
        genres == asStringArray(genresRaw)
        titleText == asTrimmedString(pick(given, <<"title">>))
        plot == asTrimmedString(pick(given, <<"plot">>))
    IN  [value |->
            IF titleObj = Null
            THEN IF Truthy(titleId) THEN Obj([titleId |-> titleId]) ELSE Null
            ELSE BodyOf([titleId |-> titleId,
                         title |-> IF Truthy(titleText) THEN titleText ELSE Undefined,
                         plot |-> IF Truthy(plot) THEN plot ELSE Undefined,
                         year |-> IF year # Null THEN year ELSE Undefined,
                         runtimeMinutes |-> IF runtimeMinutes # Null THEN runtimeMinutes
                                            ELSE Undefined,
                         genres |-> IF genres # <<>> THEN Arr(genres) ELSE Undefined]),
         errors |->
            Pushed(<< <<titleObj # Null /\ ~Truthy(titleIdFromTitle),
                        "title.title_id is required when title object is provided">>,
                      <<~Truthy(titleId), "title_id is required (top-level or inside title)">>,
                      <<titleObj # Null /\ yearRaw # Undefined /\ year = Null,
                        "title.year must be an integer when provided">>,
                      <<titleObj # Null /\ runtimeRaw # Undefined /\ runtimeMinutes = Null,
                        "title.runtime_minutes must be an integer when provided">>,
                      <<titleObj # Null /\ genresRaw # Undefined /\ genresRaw.t # "array",
                        "title.genres must be an array of strings when provided">> >>)]

\* validateGateState(body, errors)
validateGateState(body) ==
    LET gateObj == asObject(pick(body, <<"gateState", "gate_state">>))
        given == IF gateObj # Null THEN gateObj ELSE EmptyObj
        canSpeakRaw == pick(given, <<"canSpeak", "can_speak">>)
        reasonRaw == pick(given, <<"reason">>)
        updatedAtRaw == pick(given, <<"updatedAt", "updated_at">>)
        reason == IF TypeOf(reasonRaw) = "string" /\ Trim(reasonRaw.s) # <<>>
                  THEN Str(Trim(reasonRaw.s)) ELSE Null
        updatedAt == asTrimmedString(updatedAtRaw)
    IN  IF gateObj = Null THEN [value |-> Undefined, errors |-> <<>>]
        ELSE IF TypeOf(canSpeakRaw) # "boolean"
        THEN [value |-> Undefined,
              errors |-> <<"gate_state.can_speak must be a boolean when gate_state is provided">>]
        ELSE [value |-> BodyOf([canSpeak |-> canSpeakRaw, reason |-> reason,
                                updatedAt |-> IF Truthy(updatedAt) THEN updatedAt
                                              ELSE Undefined]),
              errors |-> <<>>]

\* validateTasteSnapshot(body, errors)
validateTasteSnapshot(body) ==
    LET snapshotObj == asObject(pick(body, <<"tasteSnapshot", "taste_snapshot">>))
        given == IF snapshotObj # Null THEN snapshotObj ELSE EmptyObj
        version == asTrimmedString(pick(given, <<"version">>))
        signals == Coalesce(asObject(pick(given, <<"signals">>)), EmptyObj)
        summary == asTrimmedString(pick(given, <<"summary">>))
    IN  IF snapshotObj = Null
        THEN [value |-> Null, errors |-> <<"taste_snapshot is required">>]
        ELSE IF ~Truthy(version)
        THEN [value |-> Null, errors |-> <<"taste_snapshot.version is required">>]
        ELSE [value |-> BodyOf([version |-> version, signals |-> signals,
                                summary |-> IF Truthy(summary) THEN summary ELSE Undefined]),
              errors |-> <<>>]

RECURSIVE AnchorErrors(_, _)
\* validateTasteAnchors: the errors of the rows from index idx on
AnchorErrors(rows, idx) ==
    IF idx > Len(rows) THEN <<>>
    ELSE LET row == asObject(rows[idx])
             at == "taste_anchors[" \o ToString(idx - 1) \o "]"
             given == IF row # Null THEN row ELSE EmptyObj
         IN  (IF row = Null THEN <<at \o " must be an object">>
              ELSE Pushed(<< <<~Truthy(asTrimmedString(pick(given, <<"anchorId", "anchor_id">>))),
                               at \o ".anchor_id is required">>,
                             <<~Truthy(asTrimmedString(pick(given, <<"label">>))),
                               at \o ".label is required">>,
                             <<asFiniteNumber(pick(given, <<"weight">>)) = Null,
                               at \o ".weight must be a number">> >>))
             \o AnchorErrors(rows, idx + 1)

\* validateTasteAnchors: the anchor pushed for a row that has all three fields
AnchorOf(row) ==
    Obj([anchorId |-> asTrimmedString(pick(row, <<"anchorId", "anchor_id">>)),
         label |-> asTrimmedString(pick(row, <<"label">>)),
         weight |-> asFiniteNumber(pick(row, <<"weight">>)),
         evidence |-> Arr(asStringArray(pick(row, <<"evidence">>)))])

MaxTasteAnchors == 50

\* validateTasteAnchors(body, errors)
validateTasteAnchors(body) ==
    LET anchorsRaw == pick(body, <<"tasteAnchors", "taste_anchors">>)
        rows == IF anchorsRaw.t = "array" THEN anchorsRaw.a ELSE <<>>
        complete == SelectSeq(rows, LAMBDA item :
                        /\ asObject(item) # Null
                        /\ Truthy(asTrimmedString(pick(item, <<"anchorId", "anchor_id">>)))
                        /\ Truthy(asTrimmedString(pick(item, <<"label">>)))
                        /\ asFiniteNumber(pick(item, <<"weight">>)) # Null)
    IN  IF anchorsRaw.t # "array"
        THEN [value |-> Null, errors |-> <<"taste_anchors is required and must be an array">>]
        ELSE [value |-> Arr([i \in DOMAIN complete |-> AnchorOf(complete[i])]),
              errors |-> Pushed(<< <<Len(rows) > MaxTasteAnchors,
                                     "taste_anchors exceeds max size of 50">> >>)
                         \o AnchorErrors(rows, 1)]

RECURSIVE RatingErrors(_, _)
\* validateUserRatings: the errors of the rows from index idx on
RatingErrors(rows, idx) ==
    IF idx > Len(rows) THEN <<>>
    ELSE LET row == asObject(rows[idx])
             at == "user_ratings[" \o ToString(idx - 1) \o "]"
             given == IF row # Null THEN row ELSE EmptyObj
         IN  (IF row = Null THEN <<at \o " must be an object">>
              ELSE Pushed(<< <<~Truthy(asTrimmedString(pick(given, <<"titleId", "title_id">>))),
                               at \o ".title_id is required">>,
                             <<asFiniteNumber(pick(given, <<"rating">>)) = Null,
                               at \o ".rating must be a number">> >>))
             \o RatingErrors(rows, idx + 1)

\* validateUserRatings: the rating pushed for a row that has both fields
RatingOf(row) ==
    LET ratedAt == asTrimmedString(pick(row, <<"ratedAt", "rated_at">>))
    IN  BodyOf([titleId |-> asTrimmedString(pick(row, <<"titleId", "title_id">>)),
                rating |-> asFiniteNumber(pick(row, <<"rating">>)),
                ratedAt |-> IF Truthy(ratedAt) THEN ratedAt ELSE Undefined])

MaxUserRatings == 500

\* validateUserRatings(body, errors)
validateUserRatings(body) ==
    LET ratingsRaw == pick(body, <<"userRatings", "user_ratings">>)
        rows == IF ratingsRaw.t = "array" THEN ratingsRaw.a ELSE <<>>
        complete == SelectSeq(rows, LAMBDA item :
                        /\ asObject(item) # Null
                        /\ Truthy(asTrimmedString(pick(item, <<"titleId", "title_id">>)))
                        /\ asFiniteNumber(pick(item, <<"rating">>)) # Null)
    IN  IF ratingsRaw.t # "array"
        THEN [value |-> Null, errors |-> <<"user_ratings is required and must be an array">>]
        ELSE [value |-> Arr([i \in DOMAIN complete |-> RatingOf(complete[i])]),
              errors |-> Pushed(<< <<Len(rows) > MaxUserRatings,
                                     "user_ratings exceeds max size of 500">> >>)
                         \o RatingErrors(rows, 1)]

\* validateContradictions(body, errors)
validateContradictions(body) ==
    LET contradictionsObj == asObject(pick(body, <<"contradictions">>))
        given == IF contradictionsObj # Null THEN contradictionsObj ELSE EmptyObj
        unresolvedCount == asInteger(pick(given, <<"unresolvedCount", "unresolved_count">>))
        examplesRaw == pick(given, <<"examples">>)
        listed == IF examplesRaw.t = "array" THEN examplesRaw.a ELSE <<>>
        examples == SelectSeq(listed, IsPlainObject)
        countError ==
            Pushed(<< <<IF unresolvedCount = Null THEN TRUE ELSE unresolvedCount.n < 0,
                        "contradictions.unresolved_count must be a non-negative integer">> >>)
    IN  IF contradictionsObj = Null
        THEN [value |-> Null, errors |-> <<"contradictions is required">>]
        ELSE IF examplesRaw.t # "array"
        THEN [value |-> Null,
              errors |-> countError \o <<"contradictions.examples must be an array">>]
        ELSE [value |-> IF unresolvedCount = Null THEN Null
                        ELSE Obj([unresolvedCount |-> unresolvedCount,
                                  examples |-> Arr(examples)]),
              errors |->
                 countError
                 \o Pushed(<< <<Len(examples) # Len(listed),
                                "contradictions.examples entries must be objects">>,
                              <<IF unresolvedCount = Null THEN FALSE
                                ELSE unresolvedCount.n # Len(examples),
                                "contradictions.unresolved_count must match contradictions.examples.length">> >>)]

\* validateDrift(body, errors)
validateDrift(body) ==
    LET driftObj == asObject(pick(body, <<"drift">>))
        given == IF driftObj # Null THEN driftObj ELSE EmptyObj
        trend == asTrimmedString(pick(given, <<"trend">>))
        confidence == asFiniteNumber(pick(given, <<"confidence">>))
        signalsRaw == pick(given, <<"signals">>)
        listed == IF signalsRaw.t = "array" THEN signalsRaw.a ELSE <<>>
        signals == SelectSeq(listed, IsPlainObject)
    IN  IF driftObj = Null THEN [value |-> Null, errors |-> <<"drift is required">>]
        ELSE IF signalsRaw.t # "array"
        THEN [value |-> Null, errors |-> <<"drift.signals must be an array">>]
        ELSE [value |-> BodyOf([trend |-> IF Truthy(trend) THEN trend ELSE Undefined,
                                confidence |-> IF confidence # Null THEN confidence
                                               ELSE Undefined,
                                signals |-> Arr(signals)]),
              errors |-> Pushed(<< <<Len(signals) # Len(listed),
                                     "drift.signals entries must be objects">> >>)]

\* the five counters of interactions, with the keys the validator reads them by
InteractionCounters ==
    << <<"views", <<"views">> >>, <<"skips", <<"skips">> >>, <<"saves", <<"saves">> >>,
       <<"likes", <<"likes">> >>, <<"listAdds", <<"listAdds", "list_adds">> >> >>

TotalKeys == <<"totalReviewInteractions", "total_review_interactions">>

\* a validateInteractions that keeps the total of the client when it is valid
validateInteractions_ClientTotal(body) ==
    LET interactionsObj == asObject(pick(body, <<"interactions">>))
        count == [i \in DOMAIN InteractionCounters |->
                    IF interactionsObj = Null THEN Null
                    ELSE nonNegativeInt(pick(interactionsObj, InteractionCounters[i][2]))]
        sent == IF interactionsObj = Null THEN Null
                ELSE nonNegativeInt(pick(interactionsObj, TotalKeys))
    IN  IF interactionsObj = Null \/ \E i \in DOMAIN count : count[i] = Null
        THEN [value |-> Null, errors |-> <<"interactions is invalid">>]
        ELSE [value |-> Obj([views |-> count[1], skips |-> count[2], saves |-> count[3],
                             likes |-> count[4], listAdds |-> count[5],
                             totalReviewInteractions |->
                                IF sent # Null THEN sent
                                ELSE Num(count[1].n + count[2].n + count[3].n
                                         + count[4].n + count[5].n)]),
              errors |-> Pushed(<< <<pick(interactionsObj, TotalKeys) # Undefined /\ sent = Null,
                                     "interactions.totalReviewInteractions is invalid">> >>)]

\* validateInteractions(body, errors)
validateInteractions(body) ==
    LET interactionsObj == asObject(pick(body, <<"interactions">>))
        given == IF interactionsObj # Null THEN interactionsObj ELSE EmptyObj
        views == nonNegativeInt(pick(given, <<"views">>))
        skips == nonNegativeInt(pick(given, <<"skips">>))
        saves == nonNegativeInt(pick(given, <<"saves">>))
        likes == nonNegativeInt(pick(given, <<"likes">>))
        listAdds == nonNegativeInt(pick(given, <<"listAdds", "list_adds">>))
        totalReviewInteractionsRaw == pick(given, TotalKeys)
        totalReviewInteractions == nonNegativeInt(totalReviewInteractionsRaw)
        pushed ==
            Pushed(<< <<views = Null, "interactions.views must be a non-negative integer">>,
                      <<skips = Null, "interactions.skips must be a non-negative integer">>,
                      <<saves = Null, "interactions.saves must be a non-negative integer">>,
                      <<likes = Null, "interactions.likes must be a non-negative integer">>,
                      <<listAdds = Null, "interactions.listAdds must be a non-negative integer">>,
                      <<totalReviewInteractionsRaw # Undefined /\ totalReviewInteractions = Null,
                        "interactions.totalReviewInteractions must be a non-negative integer when provided">> >>)
    IN  IF interactionsObj = Null
        THEN [value |-> Null, errors |-> <<"interactions is required">>]
        ELSE IF views = Null \/ skips = Null \/ saves = Null \/ likes = Null \/ listAdds = Null
        THEN [value |-> Null, errors |-> pushed]
        ELSE [value |-> Obj([views |-> views, skips |-> skips, saves |-> saves,
                             likes |-> likes, listAdds |-> listAdds,
                             totalReviewInteractions |->
                                Num(views.n + skips.n + saves.n + likes.n + listAdds.n)]),
              errors |-> pushed]

\* validateGenerateReviewDto(dto)
validateGenerateReviewDto(payload) ==
    LET body == Coalesce(asObject(payload), EmptyObj)
        spoilerModeRaw == pick(body, <<"spoilerMode", "spoiler_mode">>)
        spoilerMode == IF TypeOf(spoilerModeRaw) = "string"
                       THEN ToLowerCase(Trim(spoilerModeRaw.s)) ELSE <<>>
        forceRefreshRaw == pick(body, <<"forceRefresh", "force_refresh">>)
        forceRefresh == IF TypeOf(forceRefreshRaw) = "boolean" THEN forceRefreshRaw
                        ELSE Bool(FALSE)
        providerRaw == pick(body, <<"provider">>)
        normalized == IF TypeOf(providerRaw) = "string"
                      THEN ToLowerCase(Trim(providerRaw.s)) ELSE <<>>
        provider == IF TypeOf(providerRaw) = "string" /\ Includes(REVIEW_PROVIDERS, normalized)
                    THEN Str(normalized) ELSE Undefined
        title == validateTitle(body)
        gateState == validateGateState(body)
        tasteSnapshot == validateTasteSnapshot(body)
        tasteAnchors == validateTasteAnchors(body)
        userRatings == validateUserRatings(body)
        contradictions == validateContradictions(body)
        drift == validateDrift(body)
        interactions == validateInteractions(body)
        rationaleRaw == pick(body, <<"wantToWatchRationale", "want_to_watch_rationale">>)
        wantToWatchRationale == asTrimmedString(rationaleRaw)
        errors ==
            Pushed(<< <<~Includes(SPOILER_MODES, spoilerMode),
                        "spoiler_mode must be \"spoiler\" or \"non-spoiler\"">>,
                      <<forceRefreshRaw # Undefined /\ TypeOf(forceRefreshRaw) # "boolean",
                        "force_refresh must be a boolean when provided">>,
                      <<providerRaw # Undefined /\ provider = Undefined,
                        "provider must be \"openai\" or \"deepseek\" when provided">> >>)
            \o title.errors \o gateState.errors \o tasteSnapshot.errors \o tasteAnchors.errors
            \o userRatings.errors \o contradictions.errors \o drift.errors
            \o interactions.errors
    IN  IF errors # <<>> THEN [value |-> Null, errors |-> errors]
        ELSE [value |->
                 BodyOf([title |-> title.value,
                         spoilerMode |-> Str(spoilerMode),
                         gateState |-> IF Truthy(gateState.value) THEN gateState.value
                                       ELSE Undefined,
                         tasteSnapshot |-> tasteSnapshot.value,
                         tasteAnchors |-> tasteAnchors.value,
                         userRatings |-> userRatings.value,
                         contradictions |-> contradictions.value,
                         drift |-> drift.value,
                         interactions |-> interactions.value,
                         wantToWatchRationale |-> IF Truthy(wantToWatchRationale)
                                                  THEN wantToWatchRationale ELSE Undefined,
                         forceRefresh |-> forceRefresh,
                         provider |-> provider]),
              errors |-> <<>>]

(***************************************************************************)
(* Inputs of validateGenerateReviewDto: the bundle of the tests, with one  *)
(* field changed or with another interactions object                       *)
(***************************************************************************)
AnchorRow(n) ==
    Obj([anchor_id |-> Str(<<"a_" \o ToString(n)>>), label |-> Str(<<"anchor">>),
         weight |-> Frac(1, 2), evidence |-> Arr(<<>>)])

basePayload ==
    [spoiler_mode |-> Str(SPOILER_MODES[2]),
     title |-> Obj([title_id |-> Str(<<"tt3118452">>), title |-> Str(<<"The", " ", "Circle">>),
                    year |-> Num(2017), genres |-> Arr(<<Str(<<"Reality">>)>>),
                    runtime_minutes |-> Num(97)]),
     gate_state |-> Obj([can_speak |-> Bool(TRUE), reason |-> Null,
                         updated_at |-> Str(<<"2026-02-17">>)]),
     taste_snapshot |-> Obj([version |-> Str(<<"v1">>), signals |-> EmptyObj,
                             summary |-> Str(<<"social">>)]),
     taste_anchors |-> Arr(<<AnchorRow(0)>>),
     user_ratings |-> Arr(<<Obj([title_id |-> Str(<<"tt2267998">>), rating |-> Frac(9, 2),
                                 rated_at |-> Str(<<"2025-11-03">>)])>>),
     contradictions |-> Obj([unresolved_count |-> Num(1),
                             examples |-> Arr(<<Obj([type |-> Str(<<"tone">>)])>>)]),
     drift |-> Obj([trend |-> Str(<<"shifting">>), confidence |-> Frac(29, 50),
                    signals |-> Arr(<<Obj([weight |-> Frac(3, 5)])>>)]),
     interactions |-> Obj([views |-> Num(14), skips |-> Num(3), saves |-> Num(6),
                           likes |-> Num(9), listAdds |-> Num(2),
                           totalReviewInteractions |-> Num(5)]),
     force_refresh |-> Bool(FALSE),
     provider |-> Str(openai)]

\* one field of the bundle, changed: <<key, value>>; Undefined takes the field out
ChangedFields ==
    { <<"spoiler_mode", v>> : v \in { Undefined, Num(1), Str(<<"s">>) } }
    \cup { <<"spoilerMode", Str(<<" ", "S", "P", "O", "I", "L", "E", "R">>)>> }
    \cup { <<"force_refresh", v>> : v \in { Undefined, Bool(TRUE), Str(<<"true">>), Null } }
    \cup { <<"provider", v>> : v \in { Undefined, Null, Str(<<"D", "e", "e", "p", "S", "e", "e", "k", " ">>),
                                        Str(groq) } }
    \cup { <<"title", v>> : v \in { Undefined, Null, Obj([title |-> Str(<<"x">>)]),
                                     Obj([title_id |-> Str(<<" ">>)]),
                                     Obj([titleId |-> Num(7), year |-> Frac(1, 2)]),
                                     Obj([title_id |-> Str(<<"tt1">>), year |-> Str(<<"2017">>),
                                          runtime_minutes |-> Infinity,
                                          genres |-> Str(<<"Drama">>)]) } }
    \cup { <<"title_id", Str(<<"tt9">>)>> }
    \cup { <<"gate_state", v>> : v \in { Undefined, Null, EmptyObj,
                                          Obj([can_speak |-> Str(<<"yes">>)]),
                                          Obj([canSpeak |-> Bool(FALSE),
                                               reason |-> Str(<<" ", "later">>)]) } }
    \cup { <<"taste_snapshot", v>> : v \in { Undefined, EmptyObj, Arr(<<>>),
                                              Obj([version |-> Str(<<" ">>)]),
                                              Obj([version |-> Str(<<"v2">>),
                                                   signals |-> Arr(<<>>)]) } }
    \cup { <<"taste_anchors", v>> : v \in { Undefined, EmptyObj, Arr(<<>>),
                                             Arr(<<Null, Obj([label |-> Str(<<"l">>)])>>),
                                             Arr([i \in 1..(MaxTasteAnchors + 1) |->
                                                     AnchorRow(i)]) } }
    \cup { <<"user_ratings", v>> : v \in { Undefined, Arr(<<>>), Arr(<<Num(4)>>),
                                            Arr(<<Obj([title_id |-> Str(<<"tt2">>),
                                                       rating |-> Str(<<"4">>)])>>) } }
    \cup { <<"contradictions", v>> :
              v \in { Undefined,
                      Obj([unresolved_count |-> Num(3),
                           examples |-> Arr(<<Obj([type |-> Str(<<"tone">>)])>>)]),
                      Obj([unresolved_count |-> Num(0), examples |-> Arr(<<>>)]),
                      Obj([unresolved_count |-> Num(-1), examples |-> Arr(<<>>)]),
                      Obj([unresolved_count |-> Num(1), examples |-> Arr(<<Num(1)>>)]),
                      Obj([examples |-> Arr(<<>>)]),
                      Obj([unresolved_count |-> Num(0)]) } }
    \cup { <<"drift", v>> : v \in { Undefined, EmptyObj, Obj([signals |-> Arr(<<>>)]),
                                     Obj([signals |-> Arr(<<Null>>), confidence |-> NaN]) } }
    \cup { <<"want_to_watch_rationale", v>> : v \in { Str(<<" ", "curious">>), Num(1) } }
    \cup { <<"interactions", v>> : v \in { Undefined, Null, Arr(<<>>), Num(34), EmptyObj } }

\* what a client may write in a counter, and in the total
CounterValues == { Undefined, Null, Num(0), Num(14), Num(-1), Frac(1, 2), Str(<<"3">>) }
TotalValues == { Undefined, Null, Num(0), Num(5), Num(34), Num(-1), Frac(69, 2), Str(<<"34">>) }

\* the interactions objects a client may send
InteractionObjects ==
    { BodyOf([views |-> views, skips |-> skips, saves |-> Num(6), likes |-> likes,
              listAdds |-> IF camelCase THEN listAdds ELSE Undefined,
              list_adds |-> IF camelCase THEN Undefined ELSE listAdds,
              totalReviewInteractions |-> IF camelCase THEN total ELSE Undefined,
              total_review_interactions |-> IF camelCase THEN Undefined ELSE total]) :
        views \in CounterValues, skips \in { Num(3), Infinity }, likes \in { Num(9), Undefined },
        listAdds \in { Num(2), Num(-2), Undefined }, total \in TotalValues,
        camelCase \in BOOLEAN }

DtoPayloads ==
    { Null, Undefined, Arr(<<>>), Str(<<"{}">>), EmptyObj, BodyOf(basePayload) }
    \cup { BodyOf(With(basePayload, change[1], change[2])) : change \in ChangedFields }
    \cup { BodyOf(With(basePayload, "interactions", sent)) : sent \in InteractionObjects }

DtoInit ==
    /\ env = EmptyEnv
    /\ upstream = [a \in Adapters |-> [kind |-> "unknown"]]
    /\ RouterIdle
    /\ TranslationIdle
    /\ TwoCallsIdle
    /\ NormalizerIdle
    /\ modelOutput = Undefined
    /\ generatedReviews = <<>>
    /\ reviewResult = NoResult
    /\ storeFile = EmptyStore
    /\ reviews = [c \in CallIds |-> IdleReview]
    /\ outbound = <<>>
    /\ dto \in DtoPayloads
    /\ validation = NoValidation

\* GenerateReviewController.generateReview validates the body
DtoValidated ==
    /\ validation = NoValidation
    /\ validation' = validateGenerateReviewDto(dto)
    /\ UNCHANGED <<env, upstream, routerVars, translationVars, twoCallVars, normalizerVars,
                   modelOutput, generatedReviews, reviewResult, serviceVars, dto>>

DtoNext == DtoValidated

DtoSpec == DtoInit /\ [][DtoNext]_vars

(***************************************************************************)
(* Properties of validateGenerateReviewDto                                 *)
(***************************************************************************)
HasValidated == validation # NoValidation

Accepted == HasValidated /\ validation.value # Null

\* the interactions object of the body, and what it holds under the keys of a counter
SentInteractions == pick(dto, <<"interactions">>)
SentCounter(i) == pick(SentInteractions, InteractionCounters[i][2])
SentTotal == pick(SentInteractions, TotalKeys)

ReturnedInteractions == Get(validation.value, "interactions")
ReturnedCounter(i) == Get(ReturnedInteractions, InteractionCounters[i][1])

\* C26: the validator returns a value and no errors, or no value and at least
\* one error; in an accepted payload the five counters are returned as sent
\* and totalReviewInteractions is their sum, whatever total the client sent.
C26_TotalIsComputed ==
    HasValidated =>
        /\ \/ validation.value # Null /\ validation.errors = <<>>
           \/ validation.value = Null /\ validation.errors # <<>>
        /\ Accepted =>
              /\ \A i \in DOMAIN InteractionCounters :
                    /\ ReturnedCounter(i) = SentCounter(i)
                    /\ ReturnedCounter(i).n \in Nat
              /\ Get(ReturnedInteractions, "totalReviewInteractions")
                    = Num(ReturnedCounter(1).n + ReturnedCounter(2).n + ReturnedCounter(3).n
                          + ReturnedCounter(4).n + ReturnedCounter(5).n)

\* an accepted payload in which the client sent a total that is not the sum
C26_Witness ==
    /\ Accepted
    /\ SentTotal = Num(5)
    /\ Get(ReturnedInteractions, "totalReviewInteractions") = Num(34)

====
